---- MODULE Spec2Model ----
(***************************************************************************)
(* Layout and pagination engine of the code-to-PDF renderer:               *)
(* generatePdf, addCoverPage, addTableOfContents and renderCodeFile of     *)
(* src/unnamed/part_010 (the current pdf-renderer).                        *)
(*                                                                         *)
(* Lengths are integers in thousandths of a PDF point, so that the         *)
(* 0.001 pt tolerance of the character-fitting loop is the integer 1.      *)
(* Characters are natural numbers; the text of a token is a sequence of    *)
(* characters.  The drawing backend (pdfkit) is abstract: widthOfString    *)
(* adds the advance widths of the glyphs, addPage appends a page.          *)
(***************************************************************************)
EXTENDS Integers, Sequences, FiniteSets

\* ---------------------------------------------------------------- bounds
MaxFiles == 2
MaxLines == 3
MaxTokens == 2
MaxTokLen == 3
MaxTocPages == 2
MaxPages == 9
MaxContentLen == 4

\* ------------------------------------------------------ program constants
\* line height per point of font size (1.4), in thousandths of a point
DEFAULT_LINE_HEIGHT_MULTIPLIER == 1400
WRAP_INDENT_MULTIPLIER == 2
CODE_BLOCK_PADDING == 10000
\* the "+ 0.001" of the fitting test
Tolerance == 1
\* lineNumberPaddingRight = 10
lineNumberPaddingRight == 10000
\* 0.65 of the font size per digit of the line-number gutter
GutterDigitFactor == 650
\* minimum gutter width 35 (+ CODE_BLOCK_PADDING)
GutterMinWidth == 35000

\* ------------------------------------------------------- generic helpers
Max(a, b) == IF a >= b THEN a ELSE b

\* Math.ceil(a / b) for a >= 0, b > 0
CeilDiv(a, b) == (a + b - 1) \div b

RECURSIVE SumSeq(_)
SumSeq(s) ==
    IF Len(s) = 0 THEN 0
    ELSE IF Len(s) = 1 THEN s[1]
    ELSE LET half == Len(s) \div 2
         IN  SumSeq(SubSeq(s, 1, half)) + SumSeq(SubSeq(s, half + 1, Len(s)))

RECURSIVE Flatten(_)
Flatten(ss) == IF ss = <<>> THEN <<>> ELSE Head(ss) \o Flatten(Tail(ss))

\* String.prototype.substring(0, n) and substring(n)
SubstringTo(s, n) == SubSeq(s, 1, n)
\* the rest taken one character too far
SubstringFrom_skipsOne(s, n) == SubSeq(s, n + 2, Len(s))
SubstringFrom(s, n) == SubSeq(s, n + 1, Len(s))

\* number of decimal digits of n >= 0: String(n).length
RECURSIVE Digits(_)
Digits(n) == IF n < 10 THEN 1 ELSE 1 + Digits(n \div 10)

\* ------------------------------------------------------------------ paths
\* Collation rank of the characters paths are made of; for "/" and the
\* lowercase letters the UTF-16 order of the default sort and the order
\* of localeCompare are the same.
CharRank(c) ==
    CASE c = "." -> 0
      [] c = "/" -> 1
      [] c = "a" -> 2
      [] c = "b" -> 3
      [] c = "c" -> 4

RECURSIVE LexLess(_, _)
LexLess(p, q) ==
    IF q = <<>> THEN FALSE
    ELSE IF p = <<>> THEN TRUE
    ELSE IF CharRank(Head(p)) # CharRank(Head(q))
         THEN CharRank(Head(p)) < CharRank(Head(q))
         ELSE LexLess(Tail(p), Tail(q))

\* a.relativePath.localeCompare(b.relativePath) < 0
localeCompareLess(fa, fb) == LexLess(fa.relativePath, fb.relativePath)

\* fs.sort((a, b) => a.relativePath.localeCompare(b.relativePath)): the
\* stable sort, by the position each element gets
sortByRelativePath(fs) ==
    LET pos(i) == 1 + Cardinality({j \in 1..Len(fs) :
                        \/ localeCompareLess(fs[j], fs[i])
                        \/ (~localeCompareLess(fs[i], fs[j]) /\ j < i)})
    IN  [k \in 1..Len(fs) |-> fs[CHOOSE i \in 1..Len(fs) : pos(i) = k]]

\* path.dirname
dirname(p) ==
    LET slashes == {i \in 1..Len(p) : p[i] = "/"}
    IN  IF slashes = {} THEN <<".">>
        ELSE LET last == CHOOSE i \in slashes : \A j \in slashes : j <= i
             IN  IF last = 1 THEN <<"/">> ELSE SubSeq(p, 1, last - 1)

\* key of filesByDir for a file
dirKey(p) ==
    LET dir == dirname(p)
    IN  IF dir = <<".">> \/ dir = <<"/">> THEN <<"/">> ELSE <<"/">> \o dir


\* ----------------------------------------------------------------- state
VARIABLES
    files,                  \* the HighlightedFile[] argument (sorted in place)
    options,                \* the PdfOptions argument
    font,                   \* advance widths of the code font (1/1000 em)
    revision,               \* the renderer source that runs
    pc,                     \* position in generatePdf / renderCodeFile
    pages,                  \* the pages of doc, in the order they were added
    physicalPageCount,      \* generatePdf: physicalPageCount
    lastLogicalPageNumber,  \* generatePdf: lastLogicalPageNumber
    pageEstimates,          \* addTableOfContents: pageEstimates
    tocEntries,             \* TOC entries drawn: <<relativePath, pageNum>>
    fileIdx,                \* index of the file of the file loop
    currentPage,            \* renderCodeFile: currentPage
    currentLineY,           \* renderCodeFile: currentLineY (part_010), doc.y
    lineTopY,               \* pdf-renderer.ts: const currentLineY of the line
    currentX,               \* renderCodeFile: currentX
    isFirstTokenOfLine,     \* renderCodeFile: isFirstTokenOfLine
    lineIdx,                \* index of the line of the line loop
    tokIdx,                 \* index of the token of the token loop
    remainingText,          \* renderCodeFile: remainingText
    drawn,                  \* code text drawn for the current source line
    drawnAt,                \* Y positions of the draw calls of the last step
    wrapLines,              \* moveToNextWrapLine calls for the last wrapped token
    failedFile,             \* index of the file whose rendering threw, or 0
    visualLines,            \* vertical line slots the current file has taken
    segments,               \* code segments drawn on each visual line of the
                            \* current source line
    storedEstimates,              \* the start pages the estimation loop stored,
                            \* in the order of the loop
    lost,                   \* <<file, line, character>> of the text of tokens
                            \* whose rendering threw
    output,                 \* the file at options.output
    lastError,              \* what made the promise of generatePdf reject
    caller,                 \* position of run and of the CLI action
    exitCode,               \* process.exitCode
    successLogged,          \* 'Process completed successfully' was logged
    pdfSuccessLogged,       \* 'PDF generated successfully' was logged
    previous,               \* pages and storedEstimates of the previous call
    fileContent,            \* highlightCode: fileInfo.content
    highlighter,            \* the highlighter source that runs
    hlLines,                \* highlightCode: highlightedLines
    allFilePaths,           \* findCodeFiles: the entries glob returned
    task,                   \* findCodeFiles: where each entry's callback is
    includedFiles,          \* findCodeFiles: the shared array
    finderPc                \* findCodeFiles: position of the function

vars == <<files, options, font, revision, pc, pages, physicalPageCount,
          lastLogicalPageNumber, pageEstimates, tocEntries, fileIdx,
          currentPage, currentLineY, lineTopY, currentX, isFirstTokenOfLine,
          lineIdx, tokIdx, remainingText, drawn, drawnAt, wrapLines,
          failedFile, lost, visualLines, output, lastError, caller, exitCode,
          successLogged, pdfSuccessLogged, segments, storedEstimates,
          previous, fileContent, highlighter, hlLines, allFilePaths, task,
          includedFiles, finderPc>>

highlightVars == <<fileContent, highlighter, hlLines>>
finderVars == <<allFilePaths, task, includedFiles, finderPc>>
inputVars == <<options, font, previous, revision>>
docVars == <<physicalPageCount, lastLogicalPageNumber, pageEstimates,
             tocEntries, failedFile>>
callerVars == <<caller, exitCode, successLogged>>
streamVars == <<output, lastError, pdfSuccessLogged>>
lineVars == <<lineTopY, currentX, isFirstTokenOfLine, tokIdx, remainingText,
              drawn, wrapLines, segments>>

\* --------------------------------------------------------- font metrics
\* the space character of wrapIndent
SpaceChar == 0

glyphAdvance(c) ==
    IF c = SpaceChar THEN font.space
    ELSE IF c % 2 = 1 THEN font.odd ELSE font.even

\* doc.font(codeFont).fontSize(fontSize).widthOfString(s)
widthOfString(s) ==
    SumSeq([i \in 1..Len(s) |-> glyphAdvance(s[i])]) * options.fontSize

\* ------------------------------------------------------------- geometry
getContentHeight ==
    Max(0, options.pageHeight - options.margins.top - options.margins.bottom
           - options.headerHeight - options.footerHeight)

getContentWidth ==
    Max(0, options.pageWidth - options.margins.left - options.margins.right)

startY == options.margins.top + options.headerHeight
endY == options.pageHeight - options.margins.bottom - options.footerHeight
startX == options.margins.left
lineHeight == options.fontSize * DEFAULT_LINE_HEIGHT_MULTIPLIER

maxLineNumDigits(file) == Digits(Len(file.highlightedLines))

lineNumberWidth(file) ==
    IF options.showLineNumbers
    THEN Max(maxLineNumDigits(file) * options.fontSize * GutterDigitFactor
                + CODE_BLOCK_PADDING,
             GutterMinWidth + CODE_BLOCK_PADDING)
    ELSE 0

codeStartX(file) ==
    startX + (IF options.showLineNumbers
              THEN lineNumberWidth(file) + lineNumberPaddingRight
              ELSE CODE_BLOCK_PADDING)

codeWidth(file) ==
    getContentWidth - (codeStartX(file) - startX) - CODE_BLOCK_PADDING

wrapIndentWidth ==
    widthOfString([i \in 1..WRAP_INDENT_MULTIPLIER |-> SpaceChar])

\* the gutter draws (line number, wrap indicator) are made
gutterDrawn(file) == options.showLineNumbers /\ lineNumberWidth(file) > 0

\* the page-break test of the line loop and of moveToNextWrapLine
needsPageBreak_atPageBottom(y) == y + lineHeight > endY

needsPageBreak(y) == y + lineHeight > endY - CODE_BLOCK_PADDING

\* ---------------------------------------------------------------- pages
NoFile == <<>>
CoverPage == [kind |-> "cover", file |-> NoFile, footer |-> 0]
TocPage == [kind |-> "toc", file |-> NoFile, footer |-> 0]

\* doc.addPage() followed by setupPageVisuals(): the page with the header
\* of the file and the footer `Page n`; returns the Y of the first line
CodePage(file, n) == [kind |-> "code", file |-> file.relativePath, footer |-> n]

setupPageVisuals == startY + CODE_BLOCK_PADDING \div 2

\* the page cursor [page, y] after the body of setupPageVisuals ran on it:
\* part_010 assigns neither currentPage nor currentLineY (it returns the
\* start Y, which the caller assigns); src/src/pdf-renderer.ts keeps the
\* vertical cursor in doc.y and writes it
cursorAfterSetup(cursor) ==
    IF revision = "part_010"
    THEN cursor
    ELSE [cursor EXCEPT !.y = setupPageVisuals]


\* --------------------------------------------------- table of contents
\* keys of filesByDir, sorted: Object.keys(filesByDir).sort()
sortedDirs(fs) ==
    LET dirs == {dirKey(fs[i].relativePath) : i \in 1..Len(fs)}
    IN  [k \in 1..Cardinality(dirs) |->
            CHOOSE d \in dirs :
                Cardinality({e \in dirs : LexLess(e, d)}) = k - 1]

\* filesByDir[dir].sort(localeCompare): the files of one directory
sortedFilesOfDir(fs, dir) ==
    sortByRelativePath(SelectSeq(fs, LAMBDA f : dirKey(f.relativePath) = dir))

\* the files in the order the TOC loops visit them
tocOrder(fs) ==
    LET dirs == sortedDirs(fs)
    IN  Flatten([k \in 1..Len(dirs) |-> sortedFilesOfDir(fs, dirs[k])])

codeLinesPerPage == Max(1, getContentHeight \div lineHeight)

estimatedPagesForFile(file) ==
    Max(1, CeilDiv(Len(file.highlightedLines), codeLinesPerPage))

\* the values of estimatedCurrentPage stored for the files of `order`
RECURSIVE estimateFrom(_, _)
estimateFrom(order, estimatedCurrentPage) ==
    IF order = <<>> THEN <<>>
    ELSE <<estimatedCurrentPage>> \o
         estimateFrom(Tail(order),
                      estimatedCurrentPage + estimatedPagesForFile(Head(order)))

\* pageEstimates after the estimation loop
estimatePages(fs, pageNumberOffset) ==
    LET order == tocOrder(fs)
        est == estimateFrom(order, pageNumberOffset)
    IN  [p \in {order[i].relativePath : i \in 1..Len(order)} |->
            est[CHOOSE i \in 1..Len(order) : order[i].relativePath = p]]

\* the entries the rendering loops draw, in order
tocListing(fs, estimates) ==
    LET order == tocOrder(fs)
    IN  [i \in 1..Len(order) |->
            <<order[i].relativePath, estimates[order[i].relativePath]>>]

NoEstimates == <<>>

\* JavaScript numbers: the integers, Infinity and NaN
Finite(n) == [kind |-> "finite", value |-> n]
Infinity == [kind |-> "Infinity", value |-> 0]
NaN == [kind |-> "NaN", value |-> 0]

\* Math.ceil(a / b) for an integer a >= 0 and an integer b
jsCeilOfQuotient(a, b) ==
    IF b = 0 THEN (IF a = 0 THEN NaN ELSE Infinity)
    ELSE IF b > 0 THEN Finite(CeilDiv(a, b))
    ELSE Finite(0 - (a \div (0 - b)))

\* Math.max(1, x)
jsMaxOne(x) == IF x.kind = "finite" THEN Finite(Max(1, x.value)) ELSE x

\* x + y
jsPlus(x, y) ==
    IF x.kind = "NaN" \/ y.kind = "NaN" THEN NaN
    ELSE IF x.kind = "Infinity" \/ y.kind = "Infinity" THEN Infinity
    ELSE Finite(x.value + y.value)

\* getContentHeight of pdf-renderer.ts and the height toc.ts computes: the
\* page height less margins, header and footer
rawContentHeight ==
    options.pageHeight - options.margins.top - options.margins.bottom
        - options.headerHeight - options.footerHeight

\* codeLinesPerPage of pdf-renderer.ts, linesPerPage of toc.ts
legacyCodeLinesPerPage == rawContentHeight \div lineHeight

legacyEstimatedPagesForFile(file) ==
    jsMaxOne(jsCeilOfQuotient(Len(file.highlightedLines),
                              legacyCodeLinesPerPage))

\* the values of estimatedCurrentPage (currentPage in toc.ts) stored for
\* the files of `order`
RECURSIVE legacyEstimateFrom(_, _)
legacyEstimateFrom(order, estimatedCurrentPage) ==
    IF order = <<>> THEN <<>>
    ELSE <<estimatedCurrentPage>> \o
         legacyEstimateFrom(Tail(order),
                            jsPlus(estimatedCurrentPage,
                                   legacyEstimatedPagesForFile(Head(order))))

\* let currentPage = 3: toc.ts counts a cover page and one TOC page
TocFirstPage == 3

\* the start page the estimation loop begins with
startPage ==
    IF revision = "toc.ts" THEN TocFirstPage ELSE physicalPageCount + 1

\* the estimation loop of the source that runs
estimatesOf(fs) ==
    IF revision = "part_010"
    THEN LET est == estimateFrom(tocOrder(fs), startPage)
         IN  [i \in 1..Len(est) |-> Finite(est[i])]
    ELSE legacyEstimateFrom(tocOrder(fs), Finite(startPage))

\* --------------------------------------------------- document assembly
\* a cover step that counts the cover page whether or not it was added
AddCoverPage_countsFailedCover ==
    /\ pc = "cover"
    /\ \/ pages' = <<CoverPage>>
       \/ revision = "part_010" /\ pages' = <<>>
    /\ physicalPageCount' = 1
    /\ pc' = "toc"
    /\ UNCHANGED <<files, inputVars, finderVars, highlightVars,
                   storedEstimates, lost, visualLines, callerVars, streamVars,
                   lastLogicalPageNumber, pageEstimates, tocEntries,
                   failedFile, fileIdx, currentPage, currentLineY, lineIdx,
                   lineVars, drawnAt>>
\* addCoverPage and physicalPageCount = doc.bufferedPageRange().count;
\* the try block of part_010 may fail before or after doc.addPage
AddCoverPage ==
    /\ pc = "cover"
    /\ \/ pages' = <<CoverPage>>
       \/ revision = "part_010" /\ pages' = <<>>
    /\ physicalPageCount' = Len(pages')
    /\ pc' = "toc"
    /\ UNCHANGED <<files, inputVars, finderVars, highlightVars,
                   storedEstimates, lost, visualLines, callerVars, streamVars,
                   lastLogicalPageNumber, pageEstimates, tocEntries,
                   failedFile, fileIdx, currentPage, currentLineY, lineIdx,
                   lineVars, drawnAt>>

\* a TOC step whose failure ends the generation
AddTableOfContentsWith_aborts(outcome) ==
    /\ pc = "toc"
    /\ Len(files) > 1
    /\ \E n \in 0..MaxTocPages :
         LET est == estimatePages(files, physicalPageCount + 1)
             listing == tocListing(files, est)
         IN  /\ outcome = "ok" => n >= 1
             /\ outcome = "early" => n <= 1
             /\ outcome = "late" => n >= 1
             /\ Len(pages) + n <= MaxPages
             /\ pages' = pages \o [i \in 1..n |-> TocPage]
             /\ pageEstimates' = IF outcome = "early" THEN NoEstimates ELSE est
             /\ \E k \in 0..Len(listing) :
                  /\ outcome = "ok" => k = Len(listing)
                  /\ outcome = "early" => k = 0
                  /\ outcome = "late" => k < Len(listing)
                  /\ tocEntries' = SubSeq(listing, 1, k)
    /\ physicalPageCount' = Len(pages')
    /\ lastLogicalPageNumber' = physicalPageCount'
    /\ pc' = IF outcome = "ok" THEN "sort" ELSE "rejected"
    /\ UNCHANGED <<files, inputVars, finderVars, highlightVars,
                   storedEstimates, lost, visualLines, callerVars, streamVars,
                   failedFile, fileIdx, currentPage, currentLineY, lineIdx,
                   lineVars, drawnAt>>

\* files.length > 1: addTableOfContents with pageNumberOffset =
\* physicalPageCount + 1, then the page counts are read back.  The try
\* block may fail before the estimation ("early"), or while the entries
\* are drawn ("late"); the number of TOC pages is the backend's.
AddTableOfContentsWith(outcome) ==
    /\ pc = "toc"
    /\ Len(files) > 1
    /\ \E n \in 0..MaxTocPages :
         LET est == estimatePages(files, physicalPageCount + 1)
             listing == tocListing(files, est)
         IN  /\ outcome = "ok" => n >= 1
             /\ outcome = "early" => n <= 1
             /\ outcome = "late" => n >= 1
             /\ Len(pages) + n <= MaxPages
             /\ pages' = pages \o [i \in 1..n |-> TocPage]
             /\ pageEstimates' = IF outcome = "early" THEN NoEstimates ELSE est
             /\ \E k \in 0..Len(listing) :
                  /\ outcome = "ok" => k = Len(listing)
                  /\ outcome = "early" => k = 0
                  /\ outcome = "late" => k < Len(listing)
                  /\ tocEntries' = SubSeq(listing, 1, k)
    /\ physicalPageCount' = Len(pages')
    /\ lastLogicalPageNumber' = physicalPageCount'
    /\ pc' = "sort"
    /\ UNCHANGED <<files, inputVars, finderVars, highlightVars,
                   storedEstimates, lost, visualLines, callerVars, streamVars,
                   failedFile, fileIdx, currentPage, currentLineY, lineIdx,
                   lineVars, drawnAt>>

AddTableOfContents ==
    \/ AddTableOfContentsWith("ok")
    \/ AddTableOfContentsWith("late")
    \/ AddTableOfContentsWith("early")

\* files.length <= 1: no TOC
SkipTableOfContents ==
    /\ pc = "toc"
    /\ Len(files) <= 1
    /\ lastLogicalPageNumber' = physicalPageCount
    /\ pc' = "sort"
    /\ UNCHANGED <<files, inputVars, finderVars, highlightVars,
                   storedEstimates, lost, visualLines, callerVars, streamVars,
                   pages, physicalPageCount, pageEstimates, tocEntries,
                   failedFile, fileIdx, currentPage, currentLineY, lineIdx,
                   lineVars, drawnAt>>

\* a file loop over the files as they were passed in
SortFiles_keepsOrder ==
    /\ pc = "sort"
    /\ fileIdx' = 1
    /\ pc' = "file"
    /\ UNCHANGED <<files, inputVars, finderVars, highlightVars,
                   storedEstimates, lost, visualLines, callerVars, streamVars,
                   pages, docVars, currentPage, currentLineY, lineIdx,
                   lineVars, drawnAt>>

\* const sortedFiles = files.sort(localeCompare): sorts files in place
SortFiles ==
    /\ pc = "sort"
    /\ files' = sortByRelativePath(files)
    /\ fileIdx' = 1
    /\ pc' = "file"
    /\ UNCHANGED <<inputVars, finderVars, highlightVars, storedEstimates, lost,
                   visualLines, callerVars, streamVars, pages, docVars,
                   currentPage, currentLineY, lineIdx, lineVars, drawnAt>>


\* ------------------------------------------------------- renderCodeFile
curFile == files[fileIdx]
curLine == curFile.highlightedLines[lineIdx]
curToken == curLine.tokens[tokIdx]

\* a doc.text call of code text on the current visual line
segmentDrawn(segs) == [segs EXCEPT ![Len(segs)] = @ + 1]

boundary_atGutter == codeStartX(curFile)

\* boundary of the code column: codeStartX + codeWidth
boundary == codeStartX(curFile) + codeWidth(curFile)

\* moveToNextWrapLine applied to (currentLineY, currentPage, pages):
\* advance Y, break the page if the new position needs it, indent X and
\* draw the wrap indicator in the gutter
moveToNextWrapLine(y, page, pgs) ==
    LET y1 == y + lineHeight
        brk == needsPageBreak(y1)
        y2 == IF brk THEN setupPageVisuals ELSE y1
    IN  [y |-> y2,
         page |-> IF brk THEN page + 1 ELSE page,
         pages |-> IF brk THEN Append(pgs, CodePage(curFile, page + 1)) ELSE pgs,
         x |-> codeStartX(curFile) + wrapIndentWidth,
         marks |-> IF gutterDrawn(curFile) THEN {y2} ELSE {}]

\* the for loop "Determine how many characters fit", from index i on: it
\* breaks at the first prefix of text wider than limit
RECURSIVE fitsLoop(_, _, _)
fitsLoop(text, limit, i) ==
    IF i > Len(text) \/ widthOfString(SubstringTo(text, i)) > limit
    THEN i - 1
    ELSE fitsLoop(text, limit, i + 1)

\* fitsChars: the longest prefix all of whose shorter prefixes fit too
fitsCharsOf(text, availableWidth) ==
    fitsLoop(text, availableWidth + Tolerance, 1)

\* numbering that starts at 1 on the first file
currentFileStartLogicalPage_fromOne ==
    IF fileIdx = 1 THEN 1 ELSE lastLogicalPageNumber + 1
\* numbering that restarts after the front matter for every file
currentFileStartLogicalPage_restart == physicalPageCount + 1
\* numbering that takes the start page of a file from its estimate
currentFileStartLogicalPage_fromEstimate ==
    IF files[fileIdx].relativePath \in DOMAIN pageEstimates
    THEN Max(pageEstimates[files[fileIdx].relativePath], lastLogicalPageNumber + 1)
    ELSE lastLogicalPageNumber + 1
\* numbering from a page counter of the module that outlives the call
currentFileStartLogicalPage_global ==
    lastLogicalPageNumber + 1 +
        (IF fileIdx = 1 THEN Len(previous.pages) ELSE 0)
\* const currentFileStartLogicalPage = lastLogicalPageNumber + 1
currentFileStartLogicalPage == lastLogicalPageNumber + 1

\* for (const file of sortedFiles): the call of renderCodeFile up to the
\* first setupPageVisuals
RenderFileStart ==
    /\ pc = "file"
    /\ fileIdx <= Len(files)
    /\ Len(pages) < MaxPages
    /\ currentPage' = currentFileStartLogicalPage
    /\ pages' = Append(pages, CodePage(curFile, currentPage'))
    /\ currentLineY' = setupPageVisuals
    /\ lineIdx' = 1
    /\ visualLines' = 0
    /\ drawnAt' = {}
    /\ pc' = "line"
    /\ UNCHANGED <<files, inputVars, finderVars, highlightVars,
                   storedEstimates, lost, callerVars, streamVars, docVars,
                   fileIdx, lineVars>>

\* top of the line loop: page-break check, line number, reset of X
LineStart ==
    /\ revision = "part_010"
    /\ pc = "line"
    /\ lineIdx <= Len(curFile.highlightedLines)
    /\ LET brk == needsPageBreak(currentLineY)
           y == IF brk THEN setupPageVisuals ELSE currentLineY
       IN  /\ brk => Len(pages) < MaxPages
           /\ pages' = IF brk THEN Append(pages, CodePage(curFile, currentPage + 1))
                       ELSE pages
           /\ currentPage' = IF brk THEN currentPage + 1 ELSE currentPage
           /\ currentLineY' = y
           /\ drawnAt' = IF gutterDrawn(curFile) THEN {y} ELSE {}
    /\ currentX' = codeStartX(curFile)
    /\ isFirstTokenOfLine' = TRUE
    /\ tokIdx' = 1
    /\ remainingText' = <<>>
    /\ drawn' = <<>>
    /\ wrapLines' = 0
    /\ visualLines' = visualLines + 1
    /\ segments' = <<0>>
    /\ pc' = "token"
    /\ UNCHANGED <<files, inputVars, finderVars, highlightVars,
                   storedEstimates, lost, callerVars, streamVars, docVars,
                   fileIdx, lineIdx, lineTopY>>

\* one pass of the token loop up to the while loop: an empty token is
\* skipped, a token that fits is drawn whole, otherwise wrapping starts
TokenStep ==
    /\ revision = "part_010"
    /\ pc = "token"
    /\ tokIdx <= Len(curLine.tokens)
    /\ LET tokenText == curToken
           tokenWidth == widthOfString(tokenText)
       IN  IF Len(tokenText) = 0
           THEN /\ isFirstTokenOfLine' = FALSE
                /\ tokIdx' = tokIdx + 1
                /\ drawnAt' = {}
                /\ UNCHANGED <<pc, pages, currentPage, currentLineY, currentX,
                               remainingText, drawn, wrapLines, visualLines,
                               segments>>
           ELSE IF currentX + tokenWidth <= boundary
           THEN /\ drawn' = drawn \o tokenText
                /\ segments' = segmentDrawn(segments)
                /\ drawnAt' = {currentLineY}
                /\ currentX' = currentX + tokenWidth
                /\ isFirstTokenOfLine' = FALSE
                /\ tokIdx' = tokIdx + 1
                /\ UNCHANGED <<pc, pages, currentPage, currentLineY,
                               remainingText, wrapLines, visualLines>>
           ELSE LET move == (isFirstTokenOfLine /\ currentX = codeStartX(curFile))
                            \/ ~isFirstTokenOfLine
                    m == moveToNextWrapLine(currentLineY, currentPage, pages)
                IN  /\ remainingText' = tokenText
                    /\ Len(m.pages) <= MaxPages
                    /\ pages' = IF move THEN m.pages ELSE pages
                    /\ currentPage' = IF move THEN m.page ELSE currentPage
                    /\ currentLineY' = IF move THEN m.y ELSE currentLineY
                    /\ currentX' = IF move THEN m.x ELSE currentX
                    /\ drawnAt' = IF move THEN m.marks ELSE {}
                    /\ wrapLines' = IF move THEN 1 ELSE 0
                    /\ visualLines' = IF move THEN visualLines + 1
                                      ELSE visualLines
                    /\ segments' = IF move THEN Append(segments, 0)
                                   ELSE segments
                    /\ pc' = "wrap"
                    /\ UNCHANGED <<isFirstTokenOfLine, tokIdx, drawn>>
    /\ UNCHANGED <<files, inputVars, finderVars, highlightVars,
                   storedEstimates, lost, callerVars, streamVars, docVars,
                   fileIdx, lineIdx, lineTopY>>

\* one iteration of while (remainingText.length > 0), or its exit
WrapStep ==
    /\ revision = "part_010"
    /\ pc = "wrap"
    /\ IF Len(remainingText) = 0
       THEN /\ isFirstTokenOfLine' = FALSE
            /\ tokIdx' = tokIdx + 1
            /\ drawnAt' = {}
            /\ pc' = "token"
            /\ UNCHANGED <<pages, currentPage, currentLineY, currentX,
                           remainingText, drawn, wrapLines, visualLines,
                           segments>>
       ELSE LET availableWidth == boundary - currentX
                found == fitsCharsOf(remainingText, availableWidth)
                m == moveToNextWrapLine(currentLineY, currentPage, pages)
            IN  IF found = 0 /\ availableWidth <= 0
                THEN /\ Len(m.pages) <= MaxPages
                     /\ pages' = m.pages
                     /\ currentPage' = m.page
                     /\ currentLineY' = m.y
                     /\ currentX' = m.x
                     /\ drawnAt' = m.marks
                     /\ wrapLines' = wrapLines + 1
                     /\ visualLines' = visualLines + 1
                     /\ segments' = Append(segments, 0)
                     /\ UNCHANGED <<pc, isFirstTokenOfLine, tokIdx,
                                    remainingText, drawn>>
                ELSE LET fitsChars == IF found = 0 THEN 1 ELSE found
                         textToDraw == SubstringTo(remainingText, fitsChars)
                         currentSegmentWidth == widthOfString(textToDraw)
                         rest == SubstringFrom(remainingText, fitsChars)
                         more == Len(rest) > 0
                     IN  /\ more => Len(m.pages) <= MaxPages
                         /\ drawn' = drawn \o textToDraw
                         /\ remainingText' = rest
                         /\ pages' = IF more THEN m.pages ELSE pages
                         /\ currentPage' = IF more THEN m.page ELSE currentPage
                         /\ currentLineY' = IF more THEN m.y ELSE currentLineY
                         /\ currentX' = IF more THEN m.x
                                        ELSE currentX + currentSegmentWidth
                         /\ drawnAt' = {currentLineY} \cup
                                       (IF more THEN m.marks ELSE {})
                         /\ wrapLines' = IF more THEN wrapLines + 1 ELSE wrapLines
                         /\ visualLines' = IF more THEN visualLines + 1
                                           ELSE visualLines
                         /\ segments' = IF more
                                        THEN Append(segmentDrawn(segments), 0)
                                        ELSE segmentDrawn(segments)
                         /\ UNCHANGED <<pc, isFirstTokenOfLine, tokIdx>>
    /\ UNCHANGED <<files, inputVars, finderVars, highlightVars,
                   storedEstimates, lost, callerVars, streamVars, docVars,
                   fileIdx, lineIdx, lineTopY>>

\* the catch and finally of the token loop: an exception thrown while the
\* token is measured or drawn (before the first segment, or before a later
\* segment of a wrapped token) is logged, isFirstTokenOfLine = false and
\* the loop goes on with the next token; the rest of the token is not drawn
TokenThrow_aborts ==
    /\ revision = "part_010"
    /\ \/ pc = "token" /\ tokIdx <= Len(curLine.tokens)
       \/ pc = "wrap" /\ Len(remainingText) > 0
    /\ LET rest == IF pc = "token" THEN curToken ELSE remainingText
       IN  lost' = lost \cup {<<fileIdx, lineIdx, rest[i]>> : i \in 1..Len(rest)}
    /\ failedFile' = fileIdx
    /\ pc' = "rejected"
    /\ drawnAt' = {}
    /\ UNCHANGED <<files, inputVars, finderVars, highlightVars,
                   storedEstimates, visualLines, callerVars, streamVars, pages,
                   physicalPageCount, lastLogicalPageNumber, pageEstimates,
                   tocEntries, fileIdx, currentPage, currentLineY, lineIdx,
                   lineVars>>

TokenThrow ==
    /\ revision = "part_010"
    /\ \/ pc = "token" /\ tokIdx <= Len(curLine.tokens)
       \/ pc = "wrap" /\ Len(remainingText) > 0
    /\ LET rest == IF pc = "token" THEN curToken ELSE remainingText
       IN  lost' = lost \cup {<<fileIdx, lineIdx, rest[i]>> : i \in 1..Len(rest)}
    /\ isFirstTokenOfLine' = FALSE
    /\ tokIdx' = tokIdx + 1
    /\ pc' = "token"
    /\ drawnAt' = {}
    /\ UNCHANGED <<files, inputVars, finderVars, highlightVars,
                   storedEstimates, visualLines, callerVars, streamVars, pages,
                   docVars, fileIdx, currentPage, currentLineY, lineIdx,
                   lineTopY, currentX, remainingText, drawn, wrapLines,
                   segments>>

\* the line end taking one row more than the line used
LineEnd_skipsRow ==
    /\ revision = "part_010"
    /\ pc = "token"
    /\ tokIdx > Len(curLine.tokens)
    /\ currentLineY' = currentLineY + 2 * lineHeight
    /\ lineIdx' = lineIdx + 1
    /\ drawnAt' = {}
    /\ pc' = "line"
    /\ UNCHANGED <<files, inputVars, finderVars, highlightVars,
                   storedEstimates, lost, visualLines, callerVars, streamVars,
                   pages, docVars, fileIdx, currentPage, lineVars>>

\* end of the token loop: advance Y for the next source line
LineEnd ==
    /\ revision = "part_010"
    /\ pc = "token"
    /\ tokIdx > Len(curLine.tokens)
    /\ currentLineY' = currentLineY + lineHeight
    /\ lineIdx' = lineIdx + 1
    /\ drawnAt' = {}
    /\ pc' = "line"
    /\ UNCHANGED <<files, inputVars, finderVars, highlightVars,
                   storedEstimates, lost, visualLines, callerVars, streamVars,
                   pages, docVars, fileIdx, currentPage, lineVars>>

\* ------------------------------------- renderCodeFile of pdf-renderer.ts
\* addCoverPage of pdf-renderer.ts has no try: an exception of its
\* doc.addPage leaves generatePdf, whose promise rejects
LegacyCoverThrow ==
    /\ revision = "pdf-renderer.ts"
    /\ pc = "cover"
    /\ pc' = "rejected"
    /\ output' = "partial"
    /\ lastError' = "exception"
    /\ UNCHANGED <<pdfSuccessLogged, files, inputVars, finderVars,
                   highlightVars, storedEstimates, lost, visualLines,
                   callerVars, pages, docVars, fileIdx, currentPage,
                   currentLineY, lineIdx, lineVars, drawnAt>>

\* the for loop "Find how many characters fit", without tolerance
legacyFitsCharsOf(text, availableWidth) ==
    fitsLoop(text, availableWidth, 1)

\* top of the line loop: page-break check on doc.y, const currentLineY,
\* line number, reset of X
LegacyLineStart ==
    /\ revision = "pdf-renderer.ts"
    /\ pc = "line"
    /\ lineIdx <= Len(curFile.highlightedLines)
    /\ LET brk == needsPageBreak(currentLineY)
           y == IF brk THEN setupPageVisuals ELSE currentLineY
       IN  /\ brk => Len(pages) < MaxPages
           /\ pages' = IF brk THEN Append(pages, CodePage(curFile, currentPage + 1))
                       ELSE pages
           /\ currentPage' = IF brk THEN currentPage + 1 ELSE currentPage
           /\ currentLineY' = y
           /\ lineTopY' = y
           /\ drawnAt' = IF options.showLineNumbers THEN {y} ELSE {}
    /\ currentX' = codeStartX(curFile)
    /\ isFirstTokenOfLine' = TRUE
    /\ tokIdx' = 1
    /\ remainingText' = <<>>
    /\ drawn' = <<>>
    /\ wrapLines' = 0
    /\ visualLines' = visualLines + 1
    /\ segments' = <<0>>
    /\ pc' = "token"
    /\ UNCHANGED <<files, inputVars, finderVars, highlightVars,
                   storedEstimates, lost, callerVars, streamVars, docVars,
                   fileIdx, lineIdx>>

\* one pass of the token loop up to the while loop: a token that fits is
\* drawn whole (an empty one too), otherwise wrapping starts, on the next
\* visual line unless the token is the first of the line
LegacyTokenStep ==
    /\ revision = "pdf-renderer.ts"
    /\ pc = "token"
    /\ tokIdx <= Len(curLine.tokens)
    /\ LET tokenText == curToken
           tokenWidth == widthOfString(tokenText)
       IN  IF currentX + tokenWidth <= boundary
           THEN /\ drawn' = drawn \o tokenText
                /\ segments' = IF Len(tokenText) > 0
                               THEN segmentDrawn(segments) ELSE segments
                /\ drawnAt' = {currentLineY}
                /\ currentX' = currentX + tokenWidth
                /\ isFirstTokenOfLine' = FALSE
                /\ tokIdx' = tokIdx + 1
                /\ UNCHANGED <<pc, pages, currentPage, currentLineY,
                               remainingText, wrapLines, visualLines>>
           ELSE LET move == ~isFirstTokenOfLine
                    m == moveToNextWrapLine(currentLineY, currentPage, pages)
                IN  /\ remainingText' = tokenText
                    /\ move => Len(m.pages) <= MaxPages
                    /\ pages' = IF move THEN m.pages ELSE pages
                    /\ currentPage' = IF move THEN m.page ELSE currentPage
                    /\ currentLineY' = IF move THEN m.y ELSE currentLineY
                    /\ currentX' = IF move THEN m.x ELSE currentX
                    /\ drawnAt' = IF move THEN m.marks ELSE {}
                    /\ wrapLines' = IF move THEN 1 ELSE 0
                    /\ visualLines' = IF move THEN visualLines + 1
                                      ELSE visualLines
                    /\ segments' = IF move THEN Append(segments, 0)
                                   ELSE segments
                    /\ pc' = "wrap"
                    /\ UNCHANGED <<isFirstTokenOfLine, tokIdx, drawn>>
    /\ UNCHANGED <<files, inputVars, finderVars, highlightVars,
                   storedEstimates, lost, callerVars, streamVars, docVars,
                   fileIdx, lineIdx, lineTopY>>

\* one iteration of while (remainingText.length > 0), or its exit: when no
\* character fits one is drawn all the same
LegacyWrapStep ==
    /\ revision = "pdf-renderer.ts"
    /\ pc = "wrap"
    /\ IF Len(remainingText) = 0
       THEN /\ isFirstTokenOfLine' = FALSE
            /\ tokIdx' = tokIdx + 1
            /\ drawnAt' = {}
            /\ pc' = "token"
            /\ UNCHANGED <<pages, currentPage, currentLineY, currentX,
                           remainingText, drawn, wrapLines, visualLines,
                           segments>>
       ELSE LET availableWidth == boundary - currentX
                found == legacyFitsCharsOf(remainingText, availableWidth)
                fitsChars == IF found = 0 THEN 1 ELSE found
                textToDraw == SubstringTo(remainingText, fitsChars)
                currentSegmentWidth == widthOfString(textToDraw)
                rest == SubstringFrom(remainingText, fitsChars)
                more == Len(rest) > 0
                m == moveToNextWrapLine(currentLineY, currentPage, pages)
            IN  /\ more => Len(m.pages) <= MaxPages
                /\ drawn' = drawn \o textToDraw
                /\ remainingText' = rest
                /\ pages' = IF more THEN m.pages ELSE pages
                /\ currentPage' = IF more THEN m.page ELSE currentPage
                /\ currentLineY' = IF more THEN m.y ELSE currentLineY
                /\ currentX' = IF more THEN m.x
                               ELSE currentX + currentSegmentWidth
                /\ drawnAt' = {currentLineY} \cup
                              (IF more THEN m.marks ELSE {})
                /\ wrapLines' = IF more THEN wrapLines + 1 ELSE wrapLines
                /\ visualLines' = IF more THEN visualLines + 1
                                  ELSE visualLines
                /\ segments' = IF more
                               THEN Append(segmentDrawn(segments), 0)
                               ELSE segmentDrawn(segments)
                /\ UNCHANGED <<pc, isFirstTokenOfLine, tokIdx>>
    /\ UNCHANGED <<files, inputVars, finderVars, highlightVars,
                   storedEstimates, lost, callerVars, streamVars, docVars,
                   fileIdx, lineIdx, lineTopY>>

\* end of the token loop: doc.y = currentLineY + lineHeight, from the Y the
\* source line started at
LegacyLineEnd ==
    /\ revision = "pdf-renderer.ts"
    /\ pc = "token"
    /\ tokIdx > Len(curLine.tokens)
    /\ currentLineY' = lineTopY + lineHeight
    /\ lineIdx' = lineIdx + 1
    /\ drawnAt' = {}
    /\ pc' = "line"
    /\ UNCHANGED <<files, inputVars, finderVars, highlightVars,
                   storedEstimates, lost, visualLines, callerVars, streamVars,
                   pages, docVars, fileIdx, currentPage, lineVars>>

\* end of the line loop: return currentPage to the file loop
RenderFileReturn ==
    /\ pc = "line"
    /\ lineIdx > Len(curFile.highlightedLines)
    /\ lastLogicalPageNumber' = currentPage
    /\ fileIdx' = fileIdx + 1
    /\ drawnAt' = {}
    /\ pc' = "file"
    /\ UNCHANGED <<files, inputVars, finderVars, highlightVars,
                   storedEstimates, lost, visualLines, callerVars, streamVars,
                   pages, physicalPageCount, pageEstimates, tocEntries,
                   failedFile, currentPage, currentLineY, lineIdx, lineVars>>

\* a file loop that recovers: the file is marked failed, one placeholder
\* page takes its place and the loop goes on with the next file
RenderFileThrow_recovers ==
    /\ \/ pc = "file" /\ fileIdx <= Len(files)
       \/ /\ pc = "line"
          /\ lineIdx <= Len(curFile.highlightedLines)
          /\ needsPageBreak(currentLineY)
    /\ Len(pages) < MaxPages
    /\ failedFile' = fileIdx
    /\ pages' = Append(pages, [kind |-> "error", file |-> curFile.relativePath,
                               footer |-> 0])
    /\ lastLogicalPageNumber' = Len(pages')
    /\ fileIdx' = fileIdx + 1
    /\ pc' = "file"
    /\ drawnAt' = {}
    /\ UNCHANGED <<files, inputVars, finderVars, highlightVars,
                   storedEstimates, lost, visualLines, callerVars, streamVars,
                   physicalPageCount, pageEstimates, tocEntries, currentPage,
                   currentLineY, lineIdx, lineVars>>

\* an exception that leaves renderCodeFile (doc.addPage of the first page
\* or of a page break between lines, outside every try of the function)
\* reaches the catch of generatePdf: the stream is closed, reject(error);
\* the file the stream opened stays at options.output with what was written
RenderFileThrow ==
    /\ \/ pc = "file" /\ fileIdx <= Len(files)
       \/ /\ pc = "line"
          /\ lineIdx <= Len(curFile.highlightedLines)
          /\ needsPageBreak(currentLineY)
    /\ failedFile' = fileIdx
    /\ pc' = "rejected"
    /\ output' = "partial"
    /\ lastError' = "exception"
    /\ drawnAt' = {}
    /\ UNCHANGED <<pdfSuccessLogged, files, inputVars, finderVars,
                   highlightVars, storedEstimates, lost, visualLines,
                   callerVars, pages, physicalPageCount, lastLogicalPageNumber,
                   pageEstimates, tocEntries, fileIdx, currentPage,
                   currentLineY, lineIdx, lineVars>>

\* after the file loop: doc.end()
DocEnd ==
    /\ pc = "file"
    /\ fileIdx > Len(files)
    /\ pc' = "ended"
    /\ UNCHANGED <<files, inputVars, finderVars, highlightVars,
                   storedEstimates, lost, visualLines, callerVars, streamVars,
                   pages, docVars, fileIdx, currentPage, currentLineY, lineIdx,
                   lineVars, drawnAt>>

\* writeStream 'finish': resolve(); the document is at options.output
StreamFinish ==
    /\ pc = "ended"
    /\ pc' = "resolved"
    /\ output' = "complete"
    /\ pdfSuccessLogged' = TRUE
    /\ UNCHANGED <<files, inputVars, finderVars, highlightVars,
                   storedEstimates, lost, visualLines, callerVars, lastError,
                   pages, docVars, fileIdx, currentPage, currentLineY, lineIdx,
                   lineVars, drawnAt>>

\* writeStream 'finish' after the catch of generatePdf closed the stream:
\* writeStream.close() ends the stream, the handler registered before the
\* content logs the success message and calls resolve(), which has no
\* effect on the promise already rejected
FinishAfterClose ==
    /\ revision = "part_010"
    /\ pc = "rejected"
    /\ lastError = "exception"
    /\ ~pdfSuccessLogged
    /\ pdfSuccessLogged' = TRUE
    /\ UNCHANGED <<pc, files, inputVars, finderVars, highlightVars,
                   storedEstimates, lost, visualLines, callerVars, output,
                   lastError, pages, docVars, fileIdx, currentPage,
                   currentLineY, lineIdx, lineVars, drawnAt>>

\* writeStream 'error' (the file could not be opened, or a write failed):
\* reject(err).  The rendering steps are synchronous, so the event comes
\* after doc.end(); nothing removes the file a failed write leaves behind.
StreamError ==
    /\ pc = "ended"
    /\ pc' = "rejected"
    /\ output' \in {"none", "partial"}
    /\ lastError' = "stream"
    /\ UNCHANGED <<pdfSuccessLogged, files, inputVars, finderVars,
                   highlightVars, storedEstimates, lost, visualLines,
                   callerVars, pages, docVars, fileIdx, currentPage,
                   currentLineY, lineIdx, lineVars, drawnAt>>

\* doc 'error': reject(err); the stream is left as it is
DocumentError ==
    /\ pc = "ended"
    /\ pc' = "rejected"
    /\ output' = "partial"
    /\ lastError' = "document"
    /\ UNCHANGED <<pdfSuccessLogged, files, inputVars, finderVars,
                   highlightVars, storedEstimates, lost, visualLines,
                   callerVars, pages, docVars, fileIdx, currentPage,
                   currentLineY, lineIdx, lineVars, drawnAt>>

\* ------------------------------------------------------ run and the CLI
\* the frame of the steps of run and of runCliAction
renderVars == <<files, pages, docVars, fileIdx, currentPage, currentLineY,
                lineIdx, lineVars, drawnAt, lost, visualLines>>

\* addTableOfContents / generateTOC up to the end of the estimation loop
EstimatePages ==
    /\ pc = "toc"
    /\ storedEstimates' = estimatesOf(files)
    /\ pc' = "estimated"
    /\ UNCHANGED <<inputVars, finderVars, highlightVars, renderVars,
                   callerVars, streamVars>>

\* run: await generatePdf(...) completes and run returns
RunReturns ==
    /\ caller = "awaiting"
    /\ pc = "resolved"
    /\ caller' = "returned"
    /\ UNCHANGED <<pc, inputVars, finderVars, highlightVars, storedEstimates,
                   streamVars, renderVars, exitCode, successLogged>>

\* a catch of run that logs the error and returns
RunRethrows_swallows ==
    /\ caller = "awaiting"
    /\ pc = "rejected"
    /\ caller' = "returned"
    /\ UNCHANGED <<pc, inputVars, finderVars, highlightVars, storedEstimates,
                   streamVars, renderVars, exitCode, successLogged>>

\* run: await generatePdf(...) throws; the catch logs the error and
\* throws it again
RunRethrows ==
    /\ caller = "awaiting"
    /\ pc = "rejected"
    /\ caller' = "thrown"
    /\ UNCHANGED <<pc, inputVars, finderVars, highlightVars, storedEstimates,
                   streamVars, renderVars, exitCode, successLogged>>

\* runCliAction: run completed without throwing, the success message
CliSuccess ==
    /\ caller = "returned"
    /\ successLogged' = TRUE
    /\ caller' = "exited"
    /\ UNCHANGED <<pc, inputVars, finderVars, highlightVars, storedEstimates,
                   streamVars, renderVars, exitCode>>

\* runCliAction: catch, process.exitCode = 1
CliCatch ==
    /\ caller = "thrown"
    /\ exitCode' = 1
    /\ caller' = "exited"
    /\ UNCHANGED <<pc, inputVars, finderVars, highlightVars, storedEstimates,
                   streamVars, renderVars, successLogged>>


\* ------------------------------------------------------- highlightCode
\* text is a sequence of one-character strings
Whitespace == {" ", "\t"}

\* line.trim() === ''
isBlank(s) == \A i \in 1..Len(s) : s[i] \in Whitespace

\* s.indexOf(c, from), 1-based, 0 when c does not occur
IndexOf(s, c, from) ==
    LET hits == {i \in from..Len(s) : s[i] = c}
    IN  IF hits = {} THEN 0 ELSE CHOOSE i \in hits : \A j \in hits : i <= j

startsWithAt(s, t, p) ==
    /\ p + Len(t) - 1 <= Len(s)
    /\ SubSeq(s, p, p + Len(t) - 1) = t

\* s.indexOf(t, from) for a string t, 1-based, 0 when t does not occur
IndexOfString(s, t, from) ==
    LET hits == {i \in from..Len(s) : startsWithAt(s, t, i)}
    IN  IF hits = {} THEN 0 ELSE CHOOSE i \in hits : \A j \in hits : i <= j

\* fileInfo.content.split(/\r?\n/) and content.split('\n')
RECURSIVE splitLines(_)
splitLines(s) ==
    LET i == IndexOf(s, "\n", 1)
    IN  IF i = 0 THEN <<s>>
        ELSE <<SubSeq(s, 1, i - 1)>> \o splitLines(SubSeq(s, i + 1, Len(s)))

LtEntity == <<"&", "l", "t", ";">>
HexLtEntity == <<"&", "#", "x", "3", "C", ";">>

\* highlight.js escapes the markup characters of the code it emits
escapeHTML(s) ==
    Flatten([i \in 1..Len(s) |-> IF s[i] = "<" THEN LtEntity ELSE <<s[i]>>])

\* he.encode(line): markup characters as hexadecimal character references
heEncode(s) ==
    Flatten([i \in 1..Len(s) |-> IF s[i] = "<" THEN HexLtEntity ELSE <<s[i]>>])

\* every character reference of s replaced by its character
RECURSIVE replaceEntities(_)
replaceEntities(s) ==
    IF s = <<>> THEN <<>>
    ELSE IF startsWithAt(s, LtEntity, 1)
    THEN <<"<">> \o replaceEntities(SubSeq(s, Len(LtEntity) + 1, Len(s)))
    ELSE IF startsWithAt(s, HexLtEntity, 1)
    THEN <<"<">> \o replaceEntities(SubSeq(s, Len(HexLtEntity) + 1, Len(s)))
    ELSE <<Head(s)>> \o replaceEntities(Tail(s))

heDecode(s) == replaceEntities(s)

decodeHtmlEntities(text) == replaceEntities(text)

\* the span tags of highlight.js, without their attributes
OpenTag == <<"<", "s", ">">>
CloseTag == <<"<", "/", "s", ">">>

\* result.value of hljs.highlight / hljs.highlightAuto: the escaped line,
\* cut in two parts, the parts listed in spans wrapped in a span element
hljsValue(line, cut, spans) ==
    LET part(k) == IF k = 1 THEN SubSeq(line, 1, cut)
                   ELSE SubSeq(line, cut + 1, Len(line))
        html(k) == IF k \in spans /\ part(k) # <<>>
                   THEN OpenTag \o escapeHTML(part(k)) \o CloseTag
                   ELSE escapeHTML(part(k))
    IN  html(1) \o html(2)

\* the loop of parseHighlightedHtml from currentIndex on: text up to the
\* next tag is collected and pushed, decoded, when a tag or the end is met
RECURSIVE parseFrom(_, _, _, _)
parseFrom(highlightedHtml, currentIndex, currentText, tokens) ==
    IF currentIndex > Len(highlightedHtml) THEN tokens
    ELSE LET tagStart == IndexOf(highlightedHtml, "<", currentIndex)
             textBeforeTag ==
                 IF tagStart = 0
                 THEN SubSeq(highlightedHtml, currentIndex, Len(highlightedHtml))
                 ELSE SubSeq(highlightedHtml, currentIndex, tagStart - 1)
             text == currentText \o textBeforeTag
             pushed == IF text # <<>> THEN Append(tokens, heDecode(text))
                       ELSE tokens
             tagEnd == IndexOf(highlightedHtml, ">", tagStart)
         IN  IF tagStart = 0 THEN pushed
             ELSE IF tagEnd = 0
             THEN Append(tokens,
                         heDecode(text \o SubSeq(highlightedHtml, tagStart,
                                                 Len(highlightedHtml))))
             ELSE parseFrom(highlightedHtml, tagEnd + 1, <<>>, pushed)

parseHighlightedHtml(highlightedHtml) ==
    SelectSeq(parseFrom(highlightedHtml, 1, <<>>, <<>>),
              LAMBDA text : Len(text) > 0)

\* the tokens highlightCode of part_009 gives a line; result is null when
\* hljs threw
lineTokens(line, cut, spans, threw) ==
    IF isBlank(line) THEN << <<>> >>
    ELSE LET htmlToParse == IF threw THEN heEncode(line)
                            ELSE hljsValue(line, cut, spans)
             parsed == parseHighlightedHtml(htmlToParse)
         IN  IF Len(parsed) = 0 /\ Len(line) > 0 THEN <<line>> ELSE parsed

\* tokenRegex.exec from lastIndex on: a span element without markup in
\* its text, or a run of characters other than '<'
RECURSIVE tokenRegexExec(_, _)
tokenRegexExec(s, lastIndex) ==
    IF lastIndex > Len(s) THEN [found |-> FALSE, text |-> <<>>, next |-> 0]
    ELSE LET from == lastIndex + Len(OpenTag)
             lt == IndexOf(s, "<", from)
             stop == IndexOf(s, "<", lastIndex)
         IN  IF /\ startsWithAt(s, OpenTag, lastIndex)
                /\ lt > from
                /\ startsWithAt(s, CloseTag, lt)
             THEN [found |-> TRUE, text |-> SubSeq(s, from, lt - 1),
                   next |-> lt + Len(CloseTag)]
             ELSE IF s[lastIndex] # "<"
             THEN [found |-> TRUE,
                   text |-> SubSeq(s, lastIndex,
                                   IF stop = 0 THEN Len(s) ELSE stop - 1),
                   next |-> IF stop = 0 THEN Len(s) + 1 ELSE stop]
             ELSE tokenRegexExec(s, lastIndex + 1)

\* the while loop of extractTokensWithSpaces and the check that follows it
RECURSIVE extractFrom(_, _, _, _, _)
extractFrom(originalLine, cleanedHtml, lastIndex, currentPos, tokens) ==
    LET match == tokenRegexExec(cleanedHtml, lastIndex)
        tokenText == match.text
        tokenPos == IndexOfString(originalLine, tokenText, currentPos)
        spaces == SubSeq(originalLine, currentPos, tokenPos - 1)
        remainingLine == SubSeq(originalLine, currentPos, Len(originalLine))
    IN  IF ~match.found
        THEN IF currentPos <= Len(originalLine) /\ ~isBlank(remainingLine)
             THEN Append(tokens, remainingLine)
             ELSE tokens
        ELSE IF isBlank(tokenText)
        THEN extractFrom(originalLine, cleanedHtml, match.next, currentPos,
                         tokens)
        ELSE IF tokenPos = 0
        THEN extractFrom(originalLine, cleanedHtml, match.next, currentPos,
                         Append(tokens, tokenText))
        ELSE extractFrom(originalLine, cleanedHtml, match.next,
                         tokenPos + Len(tokenText),
                         IF tokenPos > currentPos /\ isBlank(spaces)
                         THEN tokens \o <<spaces, tokenText>>
                         ELSE Append(tokens, tokenText))

extractTokensWithSpaces(originalLine, html) ==
    extractFrom(originalLine, decodeHtmlEntities(html), 1, 1, <<>>)

\* the tokens highlightCode of highlighter.ts gives a line
legacyLineTokens(line, cut, spans) ==
    IF isBlank(line) THEN << <<>> >>
    ELSE extractTokensWithSpaces(line, hljsValue(line, cut, spans))

hlSourceLines == splitLines(fileContent)

\* one iteration of lines.forEach of highlightCode
HighlightLine ==
    /\ highlighter = "part_009"
    /\ Len(hlLines) < Len(hlSourceLines)
    /\ LET lineNumber == Len(hlLines) + 1
           line == hlSourceLines[lineNumber]
       IN  \E cut \in 0..Len(line), spans \in SUBSET {1, 2}, threw \in BOOLEAN :
               hlLines' = Append(hlLines,
                                 [lineNumber |-> lineNumber,
                                  tokens |-> lineTokens(line, cut, spans, threw)])
    /\ UNCHANGED <<pc, fileContent, highlighter, storedEstimates, inputVars,
                   finderVars, renderVars, callerVars, streamVars>>

\* one call of the callback of lines.map of highlightCode (highlighter.ts)
LegacyHighlightLine ==
    /\ highlighter = "highlighter.ts"
    /\ Len(hlLines) < Len(hlSourceLines)
    /\ LET lineNumber == Len(hlLines) + 1
           line == hlSourceLines[lineNumber]
       IN  \E cut \in 0..Len(line), spans \in SUBSET {1, 2} :
               hlLines' = Append(hlLines,
                                 [lineNumber |-> lineNumber,
                                  tokens |-> legacyLineTokens(line, cut, spans)])
    /\ UNCHANGED <<pc, fileContent, highlighter, storedEstimates, inputVars,
                   finderVars, renderVars, callerVars, streamVars>>

\* --------------------------------------------------------------- inputs
\* A line is given by the lengths of its tokens; its characters are
\* numbered 1, 2, ... through the line, so that all of them differ.
tokenTextOf(shape, i) ==
    [k \in 1..shape[i] |-> SumSeq(SubSeq(shape, 1, i - 1)) + k]

tokensOf(shape) == [i \in 1..Len(shape) |-> tokenTextOf(shape, i)]

LineShapes == UNION {[1..n -> 0..MaxTokLen] : n \in 0..MaxTokens}

\* one one-character token
ShortLine == <<1>>
\* a three-character token followed by a one-character token
LongLine == <<3, 1>>

\* a file content: no line, or a line of one of the given shapes, alone or
\* after MaxLines - 1 short lines
Contents(shapes) ==
    {<<>>} \cup
    {[i \in 1..(k + 1) |-> IF i <= k THEN ShortLine ELSE s] :
        k \in {0, MaxLines - 1}, s \in shapes}

HighlightedFile(path, content) ==
    [relativePath |-> path,
     highlightedLines |->
        [i \in 1..Len(content) |->
            [lineNumber |-> i, tokens |-> tokensOf(content[i])]]]

\* a root file, another root file, a file of directory a
Paths == {<<"b">>, <<"c">>, <<"a", "/", "c">>}

\* a root file and a file of directory a
TwoPaths == {<<"b">>, <<"a", "/", "c">>}

\* the lists of n files with different paths
RECURSIVE FileListsOfLen(_, _, _)
FileListsOfLen(n, paths, contents) ==
    IF n = 0 THEN {<<>>}
    ELSE UNION {{Append(fs, HighlightedFile(p, c)) :
                    p \in paths \ {fs[i].relativePath : i \in 1..Len(fs)},
                    c \in contents} :
                fs \in FileListsOfLen(n - 1, paths, contents)}

FileLists(paths, contents) ==
    UNION {FileListsOfLen(n, paths, contents) : n \in 1..MaxFiles}

\* margins and header/footer heights are those the CLI sets
PdfOptions(w, h, size, ln) ==
    [pageWidth |-> w, pageHeight |-> h,
     margins |-> [top |-> 50000, right |-> 40000, bottom |-> 50000,
                  left |-> 40000],
     headerHeight |-> 25000, footerHeight |-> 25000,
     fontSize |-> size, showLineNumbers |-> ln]

\* page width that gives a code column of width cw at font size 10
PageWidthFor(cw, ln) == 80000 + cw + (IF ln THEN 65000 ELSE 20000)
\* page height that gives a content height ch
PageHeightFor(ch) == 150000 + ch

\* content heights: none, one line, three lines of font size 10
ContentHeights == {0, 29000, 57000}
\* code column widths: none, the wrap indent, three and five characters
CodeWidths == {0, 12000, 18000, 30000}
\* a page half as wide as its two side margins
NarrowPage == 80000 \div 2

\* Courier (600/1000 em), a degenerate font, a proportional font
Fonts == {[odd |-> 600, even |-> 600, space |-> 600],
          [odd |-> 0, even |-> 0, space |-> 0],
          [odd |-> 600, even |-> 300, space |-> 300]}
Courier == [odd |-> 600, even |-> 600, space |-> 600]

RenderOptions ==
    {PdfOptions(PageWidthFor(cw, ln), PageHeightFor(ch), 10, ln) :
        cw \in CodeWidths, ch \in ContentHeights, ln \in BOOLEAN}
    \cup {PdfOptions(NarrowPage, PageHeightFor(ch), 10, ln) :
            ch \in ContentHeights, ln \in BOOLEAN}

DocOptions ==
    {PdfOptions(PageWidthFor(18000, FALSE), PageHeightFor(ch), 10, FALSE) :
        ch \in {29000, 57000}}

\* the two sources of the renderer: the one of part_010 and the one of
\* src/pdf-renderer.ts
Revisions == {"part_010", "pdf-renderer.ts"}

\* two three-character tokens: the second is split over wrapped lines
SplitLine == <<MaxTokLen, MaxTokLen>>

\* there was no call before this one
NoCall == [pages |-> <<>>, pageEstimates |-> <<>>, outcome |-> "none"]

\* findCodeFiles has not been called
NoScan ==
    /\ allFilePaths = <<>>
    /\ task = <<>>
    /\ includedFiles = <<>>
    /\ finderPc = "idle"

\* the state of a call of generatePdf before its first step
CallStart ==
    /\ pc = "cover"
    /\ pages = <<>>
    /\ physicalPageCount = 0
    /\ lastLogicalPageNumber = 0
    /\ pageEstimates = NoEstimates
    /\ tocEntries = <<>>
    /\ failedFile = 0
    /\ lost = {}
    /\ visualLines = 0
    /\ segments = <<>>
    /\ storedEstimates = <<>>
    /\ output = "none"
    /\ lastError = "none"
    /\ caller = "awaiting"
    /\ exitCode = 0
    /\ successLogged = FALSE
    /\ pdfSuccessLogged = FALSE
    /\ fileIdx = 1
    /\ currentPage = 0
    /\ currentLineY = 0
    /\ lineTopY = 0
    /\ currentX = 0
    /\ isFirstTokenOfLine = TRUE
    /\ lineIdx = 1
    /\ tokIdx = 1
    /\ remainingText = <<>>
    /\ drawn = <<>>
    /\ drawnAt = {}
    /\ wrapLines = 0

\* the state at the first call of generatePdf
InitWith(fileLists, optionSet, fontSet, revisions) ==
    /\ files \in fileLists
    /\ options \in optionSet
    /\ font \in fontSet
    /\ revision \in revisions
    /\ previous = NoCall
    /\ CallStart
    /\ fileContent = <<>>
    /\ highlighter = "part_009"
    /\ hlLines = <<>>
    /\ NoScan

\* generatePdf on one or more files of short and long lines
Init == InitWith(FileLists(Paths, Contents({ShortLine, LongLine})),
                 DocOptions, {Courier}, {"part_010"})

RenderFile ==
    \/ RenderFileStart
    \/ LineStart
    \/ TokenStep
    \/ WrapStep
    \/ LineEnd
    \/ RenderFileReturn

Next ==
    \/ AddCoverPage
    \/ AddTableOfContents
    \/ SkipTableOfContents
    \/ SortFiles
    \/ RenderFile
    \/ RenderFileThrow
    \/ DocEnd
    \/ StreamFinish
    \/ FinishAfterClose
    \/ StreamError
    \/ DocumentError
    \/ RunReturns
    \/ RunRethrows
    \/ CliSuccess
    \/ CliCatch

Spec == Init /\ [][Next]_vars

\* generatePdf of either source on a single file whose last line has any
\* shape, for every layout and font
InitRender == InitWith(FileListsOfLen(1, {<<"b">>}, Contents(LineShapes)),
                       RenderOptions, Fonts, Revisions)

LegacyRenderFile ==
    \/ LegacyLineStart
    \/ LegacyTokenStep
    \/ LegacyWrapStep
    \/ LegacyLineEnd

NextRender ==
    \/ AddCoverPage
    \/ LegacyCoverThrow
    \/ SkipTableOfContents
    \/ SortFiles
    \/ RenderFile
    \/ LegacyRenderFile
    \/ RenderFileThrow
    \/ DocEnd
    \/ StreamFinish

SpecRender == InitRender /\ [][NextRender]_vars

\* generatePdf of part_010 on a single file, with tokens whose rendering
\* throws
\* a page whose second line fits above the bottom of the content area but
\* not above its bottom padding
PaddedOptions ==
    PdfOptions(PageWidthFor(18000, FALSE), PageHeightFor(33000), 10, FALSE)

InitTokens ==
    InitWith(FileListsOfLen(1, {<<"b">>},
                            Contents({ShortLine, LongLine, SplitLine})),
             DocOptions \cup {PaddedOptions}, {Courier}, {"part_010"})

NextTokens ==
    \/ AddCoverPage
    \/ SkipTableOfContents
    \/ SortFiles
    \/ RenderFile
    \/ TokenThrow
    \/ RenderFileThrow
    \/ DocEnd
    \/ StreamFinish

SpecTokens == InitTokens /\ [][NextTokens]_vars

\* after the promise resolved generatePdf is called again, in the same
\* process, with the same arguments (the files array as the call left it)
SecondCall ==
    /\ pc = "resolved"
    /\ caller = "awaiting"
    /\ previous = NoCall
    /\ previous' = [pages |-> pages, pageEstimates |-> pageEstimates,
                    outcome |-> pc]
    /\ pc' = "cover"
    /\ pages' = <<>>
    /\ physicalPageCount' = 0
    /\ lastLogicalPageNumber' = 0
    /\ pageEstimates' = NoEstimates
    /\ tocEntries' = <<>>
    /\ failedFile' = 0
    /\ lost' = {}
    /\ visualLines' = 0
    /\ segments' = <<>>
    /\ storedEstimates' = <<>>
    /\ output' = "none"
    /\ lastError' = "none"
    /\ pdfSuccessLogged' = FALSE
    /\ fileIdx' = 1
    /\ currentPage' = 0
    /\ currentLineY' = 0
    /\ lineTopY' = 0
    /\ currentX' = 0
    /\ isFirstTokenOfLine' = TRUE
    /\ lineIdx' = 1
    /\ tokIdx' = 1
    /\ remainingText' = <<>>
    /\ drawn' = <<>>
    /\ drawnAt' = {}
    /\ wrapLines' = 0
    /\ UNCHANGED <<files, options, font, revision, callerVars, finderVars,
                   highlightVars>>

\* two calls of generatePdf on files of short and long lines
InitTwice ==
    InitWith(FileLists(TwoPaths, Contents({ShortLine, LongLine})),
             {PdfOptions(PageWidthFor(18000, FALSE), PageHeightFor(29000),
                         10, FALSE)},
             {Courier}, {"part_010"})

NextTwice == Next \/ SecondCall

SpecTwice == InitTwice /\ [][NextTwice]_vars

\* the characters of a file content: a letter, blanks, a markup character
\* and the line terminator
SourceChars == {"a", " ", "\t", "<", "\n"}

FileContents == UNION {[1..n -> SourceChars] : n \in 0..MaxContentLen}

Highlighters == {"part_009", "highlighter.ts"}

\* highlightCode on a file content, before any call of generatePdf
InitHighlight ==
    /\ files \in FileListsOfLen(1, {<<"b">>}, Contents({ShortLine}))
    /\ options = PdfOptions(PageWidthFor(18000, FALSE), PageHeightFor(29000),
                            10, FALSE)
    /\ font = Courier
    /\ revision = "part_010"
    /\ previous = NoCall
    /\ CallStart
    /\ fileContent \in FileContents
    /\ highlighter \in Highlighters
    /\ hlLines = <<>>
    /\ NoScan

NextHighlight == HighlightLine \/ LegacyHighlightLine

SpecHighlight == InitHighlight /\ [][NextHighlight]_vars

\* the sources of the TOC estimator
Estimators == Revisions \cup {"toc.ts"}

\* content heights from below zero to four lines of font size 10
EstimateHeights == {0 - 20000, 0, 10000, 29000, 57000}

EstimateOptions ==
    {PdfOptions(PageWidthFor(18000, FALSE), PageHeightFor(ch), 10, FALSE) :
        ch \in EstimateHeights}

\* the estimation loop on one or more files, after the cover page
InitEstimate ==
    InitWith(FileLists(Paths, Contents({ShortLine})), EstimateOptions,
             {Courier}, Estimators)

NextEstimate == AddCoverPage \/ EstimatePages

SpecEstimate == InitEstimate /\ [][NextEstimate]_vars

\* --------------------------------------------------------- findCodeFiles
\* a sample of BINARY_EXTENSIONS
BINARY_EXTENSIONS == {"png", "pdf", "lock"}

\* const fileSizeLimit = 10 * 1024 * 1024
fileSizeLimit == 10485760

\* content.includes('\u0000')
isLikelyBinary(content) == \E i \in 1..Len(content) : content[i] = "NUL"

\* the checks of the callback made before its first await: ig.ignores and
\* the extension
skippedBeforeStat(entry) ==
    entry.ignored \/ entry.extension \in BINARY_EXTENSIONS

\* the checks on the result of fs.stat: a rejected stat, a size above the
\* limit, an empty file
skippedAfterStat(entry) ==
    \/ ~entry.statOk
    \/ entry.size > fileSizeLimit
    \/ entry.size = 0

\* the checks on the result of fs.readFile: a rejected read, binary content
skippedAfterRead(entry) ==
    ~entry.readOk \/ isLikelyBinary(entry.content)

\* the FileInfo pushed for an entry
FileInfo(entry) ==
    [relativePath |-> entry.relativePath, content |-> entry.content,
     extension |-> entry.extension]

\* allFilePaths.map(async ...): every callback runs up to its first await
\* in the order of the array
StartChecks ==
    /\ finderPc = "globbed"
    /\ task' = [i \in 1..Len(allFilePaths) |->
                   IF skippedBeforeStat(allFilePaths[i])
                   THEN "done" ELSE "stat"]
    /\ finderPc' = "checking"
    /\ UNCHANGED <<pc, allFilePaths, includedFiles, highlightVars,
                   storedEstimates, inputVars, renderVars, callerVars,
                   streamVars>>

\* await fs.stat(absolutePath) of one callback settles
StatSettles(i) ==
    /\ finderPc = "checking"
    /\ task[i] = "stat"
    /\ task' = [task EXCEPT ![i] = IF skippedAfterStat(allFilePaths[i])
                                   THEN "done" ELSE "read"]
    /\ UNCHANGED <<pc, allFilePaths, includedFiles, finderPc, highlightVars,
                   storedEstimates, inputVars, renderVars, callerVars,
                   streamVars>>

\* await fs.readFile(absolutePath, 'utf-8') of one callback settles; the
\* callback pushes to the shared array and ends
ReadSettles(i) ==
    /\ finderPc = "checking"
    /\ task[i] = "read"
    /\ includedFiles' = IF skippedAfterRead(allFilePaths[i])
                        THEN includedFiles
                        ELSE Append(includedFiles, FileInfo(allFilePaths[i]))
    /\ task' = [task EXCEPT ![i] = "done"]
    /\ UNCHANGED <<pc, allFilePaths, finderPc, highlightVars, storedEstimates,
                   inputVars, renderVars, callerVars, streamVars>>

\* a return that leaves the array in completion order
SortAndReturn_completionOrder ==
    /\ finderPc = "checking"
    /\ \A i \in 1..Len(task) : task[i] = "done"
    /\ finderPc' = "returned"
    /\ UNCHANGED <<pc, allFilePaths, task, includedFiles, highlightVars,
                   storedEstimates, inputVars, renderVars, callerVars,
                   streamVars>>

\* Promise.all has resolved: includedFiles.sort(localeCompare) and return
SortAndReturn ==
    /\ finderPc = "checking"
    /\ \A i \in 1..Len(task) : task[i] = "done"
    /\ includedFiles' = sortByRelativePath(includedFiles)
    /\ finderPc' = "returned"
    /\ UNCHANGED <<pc, allFilePaths, task, highlightVars, storedEstimates,
                   inputVars, renderVars, callerVars, streamVars>>

\* a text file of one byte
TextEntry(p) ==
    [relativePath |-> p, ignored |-> FALSE, extension |-> "ts",
     statOk |-> TRUE, size |-> 1, readOk |-> TRUE, content |-> <<"a">>]

\* the text file and the entries that differ from it in one respect: an
\* ignored path, a binary extension, a failing stat, an empty file, a file
\* of exactly the size limit, a file above it, a failing read, a NUL
\* character in the content
EntriesAt(p) ==
    LET e == TextEntry(p)
    IN  {e,
         [e EXCEPT !.ignored = TRUE],
         [e EXCEPT !.extension = "png"],
         [e EXCEPT !.statOk = FALSE],
         [e EXCEPT !.size = 0],
         [e EXCEPT !.size = fileSizeLimit],
         [e EXCEPT !.size = fileSizeLimit + 1],
         [e EXCEPT !.readOk = FALSE],
         [e EXCEPT !.content = <<"a", "NUL">>]}

\* the arrays glob can return for the paths: no path twice, any order
RECURSIVE GlobResults(_)
GlobResults(paths) ==
    {<<>>} \cup
    UNION {{<<e>> \o rest : e \in EntriesAt(p),
                            rest \in GlobResults(paths \ {p})} :
           p \in paths}

\* findCodeFiles after glob has returned
InitFind ==
    /\ files = <<>>
    /\ options = PdfOptions(PageWidthFor(18000, FALSE), PageHeightFor(29000),
                            10, FALSE)
    /\ font = Courier
    /\ revision = "part_010"
    /\ previous = NoCall
    /\ CallStart
    /\ fileContent = <<>>
    /\ highlighter = "part_009"
    /\ hlLines = <<>>
    /\ allFilePaths \in GlobResults(Paths)
    /\ task = [i \in 1..Len(allFilePaths) |-> "pending"]
    /\ includedFiles = <<>>
    /\ finderPc = "globbed"

NextFind ==
    \/ StartChecks
    \/ \E i \in 1..Len(allFilePaths) : StatSettles(i)
    \/ \E i \in 1..Len(allFilePaths) : ReadSettles(i)
    \/ SortAndReturn

SpecFind == InitFind /\ [][NextFind]_vars

\* one unbroken token of 500 characters; a token that fills a column of 40
\* characters; a token one character longer than that column
LongTokenLine == <<500>>
FullColumnLine == <<40>>
OverfullLine == <<41>>

\* a code column that fits exactly 40 characters of Courier at font size
\* 10, on a page that holds 20 lines
WideColumnOptions ==
    PdfOptions(PageWidthFor(40 * 6000, FALSE), PageHeightFor(300000), 10,
               FALSE)

\* generatePdf on one file with a long token, by both renderer sources
InitLongToken ==
    InitWith(FileListsOfLen(1, {<<"b">>},
                            Contents({LongTokenLine, FullColumnLine,
                                      OverfullLine})),
             {WideColumnOptions}, {Courier}, Revisions)

NextLongToken ==
    \/ AddCoverPage
    \/ LegacyCoverThrow
    \/ SkipTableOfContents
    \/ SortFiles
    \/ RenderFile
    \/ LegacyRenderFile
    \/ DocEnd
    \/ StreamFinish

SpecLongToken == InitLongToken /\ [][NextLongToken]_vars

TypeOK ==
    /\ pc \in {"cover", "toc", "sort", "file", "line", "token", "wrap",
               "ended", "resolved", "rejected", "estimated"}
    /\ revision \in Estimators
    /\ output \in {"none", "partial", "complete"}
    /\ lastError \in {"none", "exception", "stream", "document"}
    /\ caller \in {"awaiting", "returned", "thrown", "exited"}
    /\ exitCode \in {0, 1}
    /\ successLogged \in BOOLEAN
    /\ pdfSuccessLogged \in BOOLEAN
    /\ visualLines \in Nat
    /\ finderPc \in {"idle", "globbed", "checking", "returned"}
    /\ Len(task) = Len(allFilePaths)
    /\ \A i \in 1..Len(task) :
           task[i] \in {"pending", "stat", "read", "done"}
    /\ Len(includedFiles) <= Len(allFilePaths)
    /\ segments \in Seq(Nat)
    /\ pc \in {"token", "wrap"} => Len(segments) >= 1
    /\ highlighter \in Highlighters
    /\ Len(fileContent) <= MaxContentLen
    /\ Len(hlLines) <= Len(hlSourceLines)
    /\ Len(pages) <= MaxPages
    /\ physicalPageCount \in 0..MaxPages
    /\ isFirstTokenOfLine \in BOOLEAN


\* ================================================================ claims

\* the token loop of the current source line has ended
lineDone == pc = "token" /\ tokIdx > Len(curLine.tokens)

\* C1: when the token loop of a source line ends, the texts passed to the
\* draw call for that line, concatenated in draw order, are exactly the
\* concatenation of the line's token texts.
C1_SegmentsConcatenate == lineDone => drawn = Flatten(curLine.tokens)

\* a line whose last wrapped token was split over several visual lines
C1_Witness ==
    /\ lineDone
    /\ wrapLines >= 2
    /\ Len(drawn) >= 3
    /\ drawn = Flatten(curLine.tokens)

\* C2: the while loop places at least one character on every visual line
\* it opens: the visual lines opened for a token never outnumber its
\* characters (an empty token has the line opened before the loop).
C2_WrapProgress == pc = "wrap" => wrapLines <= Max(1, Len(curToken))

\* C8: every line number, wrap marker and code segment is drawn at a Y
\* with Y + lineHeight not below the bottom of the content area.
C8_NoDrawBelowBottom == \A y \in drawnAt : y + lineHeight <= endY


\* ------------------------------------------------- pages of the document
isCode(i) == pages[i].kind = "code"
\* page i is the first code page of the document
firstCodePage(i) == isCode(i) /\ \A j \in 1..(i - 1) : ~isCode(j)
\* page i is the first page of its file
firstPageOfFile(i) ==
    isCode(i) /\ (i = 1 \/ ~isCode(i - 1) \/ pages[i - 1].file # pages[i].file)
codePagesOf(pgs) == SelectSeq(pgs, LAMBDA p : p.kind = "code")
frontMatterOf(pgs) == SelectSeq(pgs, LAMBDA p : p.kind # "code")

\* no line of the file is wider than the code column
noLineWraps(file) ==
    \A l \in 1..Len(file.highlightedLines) :
        widthOfString(Flatten(file.highlightedLines[l].tokens)) <= codeWidth(file)
\* all lines of the file fit on the first page of the file
fitsOnOnePage(file) ==
    /\ noLineWraps(file)
    /\ setupPageVisuals + Len(file.highlightedLines) * lineHeight
           <= endY - CODE_BLOCK_PADDING

C4_FootersConsecutive ==
    /\ \A i \in 1..(Len(pages) - 1) :
         (isCode(i) /\ isCode(i + 1)) => pages[i + 1].footer = pages[i].footer + 1
    /\ pc \in {"line", "token", "wrap"} => pages[Len(pages)].footer = currentPage

\* the second file breaks a page inside a wrapped line, after a first
\* file of several pages
C4_Witness ==
    /\ pc = "wrap"
    /\ fileIdx = 2
    /\ wrapLines >= 1
    /\ currentLineY = setupPageVisuals
    /\ Len(SelectSeq(pages, LAMBDA p : p.file = files[1].relativePath)) >= 2
    /\ Len(SelectSeq(pages, LAMBDA p : p.file = files[2].relativePath)) >= 2

\* C5: the TOC lists the files in the order generatePdf renders them.
C5_TocOrderIsRenderOrder ==
    (pc \in {"file", "line", "token", "wrap", "ended", "resolved"}
        /\ Len(tocEntries) = Len(files)) =>
    \A i \in 1..Len(files) : tocEntries[i][1] = files[i].relativePath

\* C6: when no line of any file wraps, the estimated start page of a file
\* is the footer of the first page of the file.
C6_EstimateIsFirstFooter ==
    (\A f \in 1..Len(files) : noLineWraps(files[f])) =>
    \A i \in 1..Len(pages) :
        (firstPageOfFile(i) /\ pages[i].file \in DOMAIN pageEstimates) =>
            pageEstimates[pages[i].file] = pages[i].footer


\* C7: two calls of generatePdf on the same files that end with the same
\* cover and TOC pages print the same footers on the same code pages,
\* whatever the estimator computed in either call.
C7_FootersIndependentOfEstimates ==
    (/\ previous # NoCall
     /\ previous.outcome = "resolved"
     /\ pc = "resolved"
     /\ frontMatterOf(previous.pages) = frontMatterOf(pages)) =>
    codePagesOf(previous.pages) = codePagesOf(pages)

\* two completed calls with the same front matter, one with storedEstimates and
\* one whose estimation failed
C7_Witness ==
    /\ previous # NoCall
    /\ previous.outcome = "resolved"
    /\ pc = "resolved"
    /\ Len(files) >= 2
    /\ frontMatterOf(previous.pages) = frontMatterOf(pages)
    /\ previous.pageEstimates # pageEstimates
    /\ codePagesOf(previous.pages) = codePagesOf(pages)

\* the TOC phase is over
afterToc == pc \notin {"cover", "toc"}
hasTocPage == \E i \in 1..Len(pages) : pages[i].kind = "toc"
kindRank(p) == CASE p.kind = "cover" -> 0 [] p.kind = "toc" -> 1 [] OTHER -> 2

\* cover before TOC before code, and the files' pages in sorted order
pagesInPhaseOrder ==
    /\ \A i \in 2..Len(pages) : pages[i].kind # "cover"
    /\ \A i, j \in 1..Len(pages) :
         i < j => kindRank(pages[i]) <= kindRank(pages[j])
    /\ \A i, j \in 1..Len(pages) :
         (i < j /\ isCode(i) /\ isCode(j)) =>
            \/ pages[i].file = pages[j].file
            \/ LexLess(pages[i].file, pages[j].file)

C10_FileErrorRecovered == failedFile # 0 => pc # "rejected"

\* C10 amended: an exception that leaves renderCodeFile rejects the
\* promise; no placeholder page is added, no later file is rendered and
\* doc.end() is not reached.
C10_FileErrorRejects ==
    failedFile # 0 =>
        /\ pc = "rejected"
        /\ fileIdx = failedFile
        /\ \A i \in 1..Len(pages) :
             /\ pages[i].kind \in {"cover", "toc", "code"}
             /\ isCode(i) =>
                  \E j \in 1..failedFile : pages[i].file = files[j].relativePath

\* the first of two files threw after the cover and the TOC
C10_Witness ==
    /\ failedFile = 1
    /\ Len(files) = 2
    /\ pc = "rejected"
    /\ hasTocPage


\* C11: after an error of the write stream the promise of generatePdf is
\* rejected, run does not return normally, the success message of the CLI
\* is not logged and the CLI ends with exit code 1.
C11_StreamErrorIsFatal ==
    lastError = "stream" =>
        /\ pc = "rejected"
        /\ caller # "returned"
        /\ ~successLogged
        /\ caller = "exited" => exitCode = 1

\* the CLI action ended after a stream error in a document of two files
C11_Witness ==
    /\ lastError = "stream"
    /\ Len(files) = 2
    /\ caller = "exited"
    /\ exitCode = 1
    /\ ~successLogged

\* C12: after a fatal failure of generatePdf no partial file is left at
\* options.output.
C12_NoPartialOutput == pc = "rejected" => output # "partial"

\* the characters of the current line, without those of tokens that threw
keptText ==
    SelectSeq(Flatten(curLine.tokens),
              LAMBDA c : <<fileIdx, lineIdx, c>> \notin lost)
\* the step is the catch of a token whose text was not (all) drawn
tokenSkipped == lost' # lost /\ lost' # {}

\* C13 as stated: when a token fails, the horizontal cursor is advanced by
\* a fallback width for the characters of the token.
C13_SkippedTokenAdvancesCursor == [][tokenSkipped => currentX' > currentX]_vars

\* C13 amended: when a token fails the token loop goes on with the next
\* token, the horizontal cursor stays where it was, and at the end of the
\* line every character of the other tokens was drawn, in order.
C13_TokenErrorSkipsToken ==
    /\ [](lineDone => drawn = keptText)
    /\ [][tokenSkipped =>
            /\ pc' = "token"
            /\ tokIdx' = tokIdx + 1
            /\ lineIdx' = lineIdx
            /\ currentX' = currentX]_vars

\* the third line of a file is drawn after the token of its first line
\* threw, or the second token of a line is drawn after the first threw
C13_Witness ==
    /\ lineDone
    /\ drawn # <<>>
    /\ \/ lineIdx = 3 /\ \E c \in 1..MaxTokLen : <<fileIdx, 1, c>> \in lost
       \/ /\ Len(curLine.tokens) = 2
          /\ <<fileIdx, lineIdx, curLine.tokens[1][1]>> \in lost
          /\ drawn = curLine.tokens[2]

\* the footer numbers of pages, in order (0 on cover and TOC pages)
footersOf(pgs) == [i \in 1..Len(pgs) |-> pgs[i].footer]

\* C14: two calls of generatePdf in the same process on the same files and
\* options, in which the backend added as many cover and TOC pages, give the
\* same number of physical pages and the same sequence of footer numbers.
C14_SecondCallSamePages ==
    (/\ previous.outcome = "resolved"
     /\ pc = "resolved"
     /\ Len(frontMatterOf(previous.pages)) = Len(frontMatterOf(pages))) =>
    /\ Len(previous.pages) = Len(pages)
    /\ footersOf(previous.pages) = footersOf(pages)

\* two completed calls on two files that were passed in unsorted: cover,
\* TOC and at least three code pages both times
C14_Witness ==
    /\ previous.outcome = "resolved"
    /\ pc = "resolved"
    /\ Len(files) = 2
    /\ pages[1] = CoverPage /\ pages[2] = TocPage
    /\ Len(codePagesOf(pages)) >= 3
    /\ footersOf(previous.pages) = footersOf(pages)
    /\ tocEntries # <<>> /\ tocEntries[1][1] = files[2].relativePath

\* C15: no step of generatePdf changes the caller's files array: its
\* elements, their order, their lines and their tokens stay as they were.
C15_FilesUnchanged == [][files' = files]_vars

\* the source lines of the current file whose rendering has finished
linesRendered == IF pc = "line" THEN lineIdx - 1 ELSE lineIdx
fileRendered == pc = "line" /\ lineIdx > Len(curFile.highlightedLines)

\* C16: the vertical line slots renderCodeFile takes for a file are at least
\* the source lines it has rendered, and exactly as many when no line of the
\* file reaches beyond the code column boundary.
C16_VisualLinesCoverSourceLines ==
    pc \in {"line", "token", "wrap"} =>
        /\ visualLines >= linesRendered
        /\ noLineWraps(curFile) => visualLines = linesRendered

C16_WitnessWrapped ==
    /\ fileRendered
    /\ Len(curFile.highlightedLines) = MaxLines
    /\ visualLines > MaxLines
    /\ revision = "pdf-renderer.ts"

C16_Witness ==
    /\ fileRendered
    /\ Len(curFile.highlightedLines) = MaxLines
    /\ noLineWraps(curFile)
    /\ \E l \in 1..MaxLines : Len(curFile.highlightedLines[l].tokens) = MaxTokens
    /\ visualLines = MaxLines

\* C17: every line highlightCode has produced carries the number of its
\* position, counted from 1, and its tokens spell the text of the source
\* line, blanks included; highlightCode produces a line for every line of
\* the content.
C17_TokensSpellTheLine ==
    /\ Len(hlLines) <= Len(hlSourceLines)
    /\ \A i \in 1..Len(hlLines) :
           /\ hlLines[i].lineNumber = i
           /\ Flatten(hlLines[i].tokens) = hlSourceLines[i]

\* the source line being rendered is the single 500-character token
onLongTokenLine ==
    /\ pc \in {"token", "wrap"}
    /\ Len(curLine.tokens) = 1
    /\ Len(curLine.tokens[1]) = 500
    /\ lineIdx = 1

\* C18: a line of one unbroken token of 500 characters in a column that
\* fits exactly 40 characters is drawn on exactly 13 visual lines, and the
\* segments drawn contain all 500 characters.
C18_LongTokenTakes13Lines ==
    (onLongTokenLine /\ lineDone) =>
        /\ visualLines = 13
        /\ drawn = curLine.tokens[1]

\* the step that ends a source line: the vertical cursor is set for the
\* next one
lineEnds == pc = "token" /\ pc' = "line"

\* C19: when a source line ends, the vertical cursor goes one lineHeight
\* below the last visual line of that source line, on the page of that
\* visual line.
C19_NextLineBelowLastVisualLine ==
    [][lineEnds => /\ currentLineY' = currentLineY + lineHeight
                   /\ pages' = pages]_vars

\* a step that opens a visual line, for a source line or a continuation
visualLineOpens == visualLines' = visualLines + 1
\* the Y the page-break test of that step is made on
testedY == IF pc = "line" THEN currentLineY ELSE currentLineY + lineHeight
pageAdded == Len(pages') = Len(pages) + 1

\* C20 as stated: a page is started before a source line or a continuation
\* line exactly when Y + lineHeight is below pageBottom (endY).
C20_BreakIffBelowPageBottom ==
    [][visualLineOpens => (pageAdded <=> testedY + lineHeight > endY)]_vars

\* C20 amended: a page is started before a source line or a continuation
\* line exactly when Y + lineHeight is below endY - CODE_BLOCK_PADDING; the
\* line then starts at the top of the new page, otherwise at Y.
C20_BreakIffBelowPadding ==
    [][visualLineOpens =>
          /\ pageAdded <=> testedY + lineHeight > endY - CODE_BLOCK_PADDING
          /\ ~pageAdded => pages' = pages
          /\ currentLineY' = IF pageAdded THEN setupPageVisuals ELSE testedY
      ]_vars

\* the second line of a file was moved to a new page although it fitted
\* above the bottom of the content area of the first
C20_Witness ==
    /\ pc = "token" /\ lineIdx = 2 /\ visualLines = 2
    /\ Len(codePagesOf(pages)) = 2
    /\ currentLineY = setupPageVisuals
    /\ setupPageVisuals + 2 * lineHeight <= endY
    /\ setupPageVisuals + 2 * lineHeight > endY - CODE_BLOCK_PADDING

\* the token of the token loop fits on the current visual line
tokenFits ==
    /\ pc = "token" /\ tokIdx <= Len(curLine.tokens)
    /\ currentX + widthOfString(curToken) <= boundary

\* C21: a token that fits is drawn whole on the current visual line, and
\* when a source line with text has been rendered none of its visual lines
\* is without a code segment (the first one included, also when the first
\* token is wider than the column).
C21_NoEmptyVisualLine ==
    /\ [][(tokenFits /\ tokIdx' = tokIdx + 1) =>
              /\ drawn' = drawn \o curToken
              /\ visualLines' = visualLines]_vars
    /\ []((lineDone /\ Flatten(curLine.tokens) # <<>>) =>
              \A i \in 1..Len(segments) : segments[i] > 0)

\* a source line without tokens or with a single token of empty text
emptyLine(line) == Len(line.tokens) <= 1 /\ Flatten(line.tokens) = <<>>
inEmptyLine == pc \in {"token", "wrap"} /\ emptyLine(curLine)
emptyLineStarts ==
    /\ pc = "line" /\ pc' = "token"
    /\ emptyLine(curFile.highlightedLines[lineIdx])

\* C22: a source line without tokens, or with a single empty token, takes
\* exactly one visual line with no code segment: at most one page is added
\* when it starts, none afterwards, and when it ends the vertical cursor
\* is one lineHeight below the Y the line was placed at.
C22_EmptyLineTakesOneRow ==
    /\ [](inEmptyLine => segments = <<0>> /\ drawn = <<>>)
    /\ [][emptyLineStarts =>
              /\ visualLines' = visualLines + 1
              /\ Len(pages') <= Len(pages) + 1
              /\ currentLineY' \in {currentLineY, setupPageVisuals}]_vars
    /\ [][inEmptyLine =>
              /\ pages' = pages
              /\ visualLines' = visualLines
              /\ currentLineY' = IF lineEnds THEN currentLineY + lineHeight
                                 ELSE currentLineY]_vars

\* a line with a single empty token was rendered after MaxLines - 1 lines
\* of text, on a page of its own
C22_Witness ==
    /\ lineDone /\ emptyLine(curLine) /\ Len(curLine.tokens) = 1
    /\ lineIdx = MaxLines
    /\ visualLines = MaxLines
    /\ segments = <<0>>
    /\ currentLineY = setupPageVisuals
    /\ Len(codePagesOf(pages)) > 1

\* floor(contentHeight / lineHeight) with the lineHeight of renderCodeFile
flooredLinesPerPage == getContentHeight \div lineHeight

\* C23: the estimates are a running counter over the files in TOC order:
\* the first is the start page, each later one is a finite number greater
\* than the one before, and where floor(contentHeight / lineHeight) is at
\* least 1 it is the one before plus max(1, ceil(lineCount / linesPerPage))
\* of the file before.
C23_EstimatesRunningCounter ==
    pc = "estimated" =>
        LET order == tocOrder(files)
            est == storedEstimates
        IN  /\ Len(est) = Len(order)
            /\ est[1] = Finite(startPage)
            /\ \A i \in 1..(Len(est) - 1) :
                   /\ est[i].kind = "finite" /\ est[i + 1].kind = "finite"
                   /\ est[i + 1].value > est[i].value
                   /\ flooredLinesPerPage >= 1 =>
                          est[i + 1].value = est[i].value +
                              Max(1, CeilDiv(Len(order[i].highlightedLines),
                                             flooredLinesPerPage))

\* C30: every estimate is a finite integer not smaller than the start
\* page, whatever the layout, also when the content height is smaller than
\* one line height.
C30_EstimatesFinite ==
    pc = "estimated" =>
        \A i \in 1..Len(storedEstimates) :
            /\ storedEstimates[i].kind = "finite"
            /\ storedEstimates[i].value >= startPage

\* C24: when no line of any file exceeds the code column, the estimated
\* start page of every file is at most the footer printed on the first
\* rendered page of the file.
C24_EstimateIsLowerBound ==
    (\A f \in 1..Len(files) : noLineWraps(files[f])) =>
    \A i \in 1..Len(pages) :
        (firstPageOfFile(i) /\ pages[i].file \in DOMAIN pageEstimates) =>
            pageEstimates[pages[i].file] <= pages[i].footer

rendering == pc \in {"line", "token", "wrap"}
pageCursor == [page |-> currentPage, y |-> currentLineY]

\* C25: every code page added carries the chrome of one setupPageVisuals
\* call (the header of the file, the footer of the logical page number) and
\* no step redraws an earlier page; the call leaves the logical page number
\* and the vertical cursor as they were, so a second call for the same page
\* draws the same header and footer and moves nothing.
C25_ChromeOncePerPage ==
    /\ [](rendering => pages[Len(pages)] = CodePage(curFile, currentPage))
    /\ [][(rendering /\ rendering' /\ fileIdx' = fileIdx) =>
              /\ Len(pages') \in {Len(pages), Len(pages) + 1}
              /\ SubSeq(pages', 1, Len(pages)) = pages
              /\ currentPage' = currentPage + (Len(pages') - Len(pages))]_vars
    /\ [](rendering => cursorAfterSetup(pageCursor) = pageCursor)

\* what holds of both renderer sources: one chrome per code page and an
\* unchanged page number; the vertical cursor is left alone by part_010
C25_ChromeDrawnOnce ==
    /\ [](rendering => pages[Len(pages)] = CodePage(curFile, currentPage))
    /\ [][(rendering /\ rendering' /\ fileIdx' = fileIdx) =>
              /\ Len(pages') \in {Len(pages), Len(pages) + 1}
              /\ SubSeq(pages', 1, Len(pages)) = pages
              /\ currentPage' = currentPage + (Len(pages') - Len(pages))]_vars
    /\ [](rendering => cursorAfterSetup(pageCursor).page = currentPage)
    /\ [](rendering /\ revision = "part_010" =>
              cursorAfterSetup(pageCursor) = pageCursor)

\* C26: the footer number printed on a code page is the physical index of
\* the page in the document, counting the cover and TOC pages.
C26_FooterIsPhysicalIndex ==
    \A i \in 1..Len(pages) : isCode(i) => pages[i].footer = i

\* after a cover page that failed before it was added, and a TOC, a page
\* break inside a wrapped line of the second file: the new page's footer is
\* its index
C26_Witness ==
    /\ pc = "wrap"
    /\ fileIdx = 2
    /\ wrapLines >= 1
    /\ currentLineY = setupPageVisuals
    /\ pages[1] = TocPage
    /\ Len(pages) >= 4
    /\ pages[Len(pages)] = CodePage(files[2], Len(pages))

\* an entry the result must not contain: ignored, binary by extension or
\* content, empty, oversized, or unreadable
rejectedEntry(e) ==
    \/ e.ignored
    \/ e.extension \in BINARY_EXTENSIONS
    \/ isLikelyBinary(e.content)
    \/ e.size = 0
    \/ e.size > fileSizeLimit
    \/ ~e.statOk
    \/ ~e.readOk
occurrencesOf(e) ==
    Cardinality({k \in 1..Len(includedFiles) :
                    includedFiles[k].relativePath = e.relativePath})

\* C27: whatever the order in which the stat and read calls settle, the
\* list findCodeFiles returns contains every accepted entry exactly once,
\* no rejected entry, and is sorted by relative path; these three fix the
\* list, so it is the same for every interleaving.
C27_ResultIndependentOfInterleaving ==
    finderPc = "returned" =>
        /\ \A i \in 1..Len(allFilePaths) :
               occurrencesOf(allFilePaths[i]) =
                   IF rejectedEntry(allFilePaths[i]) THEN 0 ELSE 1
        /\ \A k \in 1..Len(includedFiles) :
               \E i \in 1..Len(allFilePaths) :
                   includedFiles[k] = FileInfo(allFilePaths[i])
        /\ \A k \in 1..(Len(includedFiles) - 1) :
               LexLess(includedFiles[k].relativePath,
                       includedFiles[k + 1].relativePath)

\* three entries returned by glob in an order that is not the sorted one:
\* two accepted (one of exactly the size limit), one unreadable
C27_Witness ==
    /\ finderPc = "returned"
    /\ Len(allFilePaths) = 3
    /\ LexLess(allFilePaths[3].relativePath, allFilePaths[1].relativePath)
    /\ ~rejectedEntry(allFilePaths[1])
    /\ ~allFilePaths[2].readOk
    /\ allFilePaths[3].size = fileSizeLimit
    /\ Len(includedFiles) = 2
    /\ includedFiles[1] = FileInfo(allFilePaths[3])

allFilesRendered ==
    /\ fileIdx > Len(files)
    /\ \A f \in 1..Len(files) :
           \E i \in 1..Len(pages) :
               isCode(i) /\ pages[i].file = files[f].relativePath

\* C28: the promise of generatePdf is resolved, and the message 'PDF
\* generated successfully' logged, only after every file was rendered,
\* doc.end() was called and the stream finished; after an exception in the
\* setup or the rendering the promise is rejected and the success message
\* is never logged.
C28_SuccessOnlyWhenComplete ==
    /\ pc = "resolved" =>
           allFilesRendered /\ output = "complete" /\ pdfSuccessLogged
    /\ pdfSuccessLogged => pc = "resolved"
    /\ lastError = "exception" => pc = "rejected" /\ ~pdfSuccessLogged

\* what holds: the promise resolves only for a complete document, and an
\* exception rejects it for good
C28_ResolvedOnlyWhenComplete ==
    /\ pc = "resolved" =>
           allFilesRendered /\ output = "complete" /\ pdfSuccessLogged
    /\ lastError = "exception" => pc = "rejected"

\* addCoverPage failed before its page was added
coverFailed == pc # "cover" /\ (pages = <<>> \/ pages[1] # CoverPage)
\* addTableOfContents failed before all its entries were drawn
tocFailed ==
    /\ pc \in {"sort", "file", "line", "token", "wrap", "ended", "resolved",
               "rejected"}
    /\ Len(files) > 1
    /\ Len(tocEntries) < Len(files)

\* C29: a failure of the cover page or of the table of contents does not
\* end the generation: the step is followed by the next phase, a later
\* rejection comes from the rendering of a file or from the stream, a
\* resolved call has rendered every file, and the first file starts at the
\* number of pages present in the document plus one.
C29_FrontMatterFailureGoesOn ==
    /\ [][pc = "cover" => pc' = "toc"]_vars
    /\ [][pc = "toc" => pc' = "sort"]_vars
    /\ []((coverFailed \/ tocFailed) =>
            /\ lastError = "exception" => failedFile >= 1
            /\ pc = "resolved" => allFilesRendered
            /\ (pc = "file" /\ fileIdx = 1) =>
                   currentFileStartLogicalPage = Len(pages) + 1
            /\ \A i \in 1..Len(pages) :
                   firstCodePage(i) => pages[i].footer = i)

\* neither the cover page nor a TOC page was added, no TOC entry was
\* drawn, and both files were rendered: the first on page 1
C29_Witness ==
    /\ pc = "resolved"
    /\ coverFailed
    /\ tocFailed
    /\ tocEntries = <<>>
    /\ Len(files) = 2
    /\ allFilesRendered
    /\ pages[1] = CodePage(files[1], 1)
====
